---- MODULE Spec2Model ----
(***************************************************************************)
(* Model of the canvas server of excalidraw-mcp-server: the element store, *)
(* the HTTP route handlers that mutate it, the WebSocket session registry  *)
(* and the admission middleware (rate limiters, API-key check).            *)
(*                                                                         *)
(* Route handlers are async functions.  The body of an async store method  *)
(* runs synchronously when it is called; the handler then yields at the    *)
(* `await`.  Each action below is one synchronous segment of a handler     *)
(* (from one await to the next), so segments of requests that are in       *)
(* flight together interleave.                                             *)
(***************************************************************************)
EXTENDS Integers, Sequences, FiniteSets, TLC

(***************************************************************************)
(* Bounds of the model.                                                    *)
(***************************************************************************)
MaxElements == 2      \* config.MAX_ELEMENTS of the modelled server
MaxRequests == 3      \* HTTP requests issued in one behaviour
MaxInflight == 2      \* requests in flight at the same time
MaxBatch    == 2      \* MAX_BATCH of the modelled server
MaxSyncLen  == 2      \* SyncBodySchema's list limit in the model
MaxTime     == 1      \* readings of the wall clock
NSessions   == 1      \* WebSocket peers followed next to the HTTP handlers
NPeers      == 2      \* WebSocket peers followed in the session registry
StdMax      == 6      \* config.RATE_LIMIT_MAX_REQUESTS of the modelled server
MaxArrivals == 7      \* requests arriving within one window of the standard limiter
NSavers     == 2      \* calls of FileStore.saveToDisk in progress at the same time
NChunks     == 2      \* writes fs.writeFile needs for one snapshot document

Peers == 1..NPeers

Sessions == (1..NSessions) \cap Peers

(***************************************************************************)
(* Identifiers.  Generated ids are 1, 2, ...; 0 is an id chosen by a       *)
(* client; LongId stands for a string of more than MAX_ID characters.      *)
(***************************************************************************)
MAX_ID    == 64
MaxGen    == MaxRequests * MaxSyncLen
ClientIds == {0}
LongId    == MaxGen + 1
Ids       == 0..MaxGen

\* the empty string, an id a client may choose as well
EmptyId   == 0 - 2

IdLength(id) ==
  IF id = LongId THEN MAX_ID + 1 ELSE IF id = EmptyId THEN 0 ELSE 1

NoElem == [none |-> TRUE]

(***************************************************************************)
(* Object spread: {...a, ...b}                                             *)
(***************************************************************************)
Spread(a, b) ==
  [f \in (DOMAIN a) \cup (DOMAIN b) |-> IF f \in DOMAIN b THEN b[f] ELSE a[f]]

(***************************************************************************)
(* MemoryStore: a Map from id to element, kept in insertion order.         *)
(***************************************************************************)
StoreIds(st) == {st[i].id : i \in 1..Len(st)}

StoreHas(st, id) == id \in StoreIds(st)

StoreGet(st, id) ==
  IF StoreHas(st, id)
    THEN (CHOOSE e \in {st[i] : i \in 1..Len(st)} : e.id = id)
    ELSE NoElem

StoreCount(st) == Len(st)

\* set() with the bound compared by > : one element too many gets in
StoreSetOffByOne(st, id, el) ==
  IF Len(st) > MaxElements /\ ~StoreHas(st, id)
    THEN [threw |-> TRUE, store |-> st]
    ELSE [threw |-> FALSE,
          store |-> IF StoreHas(st, id)
                      THEN [i \in 1..Len(st) |-> IF st[i].id = id THEN el ELSE st[i]]
                      ELSE Append(st, el)]

\* set(): throws when the map is full and the key is new; otherwise upserts
StoreSet(st, id, el) ==
  IF Len(st) >= MaxElements /\ ~StoreHas(st, id)
    THEN [threw |-> TRUE, store |-> st]
    ELSE [threw |-> FALSE,
          store |-> IF StoreHas(st, id)
                      THEN [i \in 1..Len(st) |-> IF st[i].id = id THEN el ELSE st[i]]
                      ELSE Append(st, el)]

\* a delete that empties the map
StoreDeleteAll(st, id) ==
  [deleted |-> StoreHas(st, id),
   store   |-> IF StoreHas(st, id) THEN <<>> ELSE st]

StoreDelete(st, id) ==
  [deleted |-> StoreHas(st, id),
   store   |-> SelectSeq(st, LAMBDA e : e.id # id)]

StoreClear(st) == <<>>

\* if (v): a string is truthy unless it is empty
Truthy(v) == v # ""

\* e.groupIds?.includes(gid) ?? false
InGroup(e, gid) ==
  /\ "groupIds" \in DOMAIN e
  /\ \E i \in 1..Len(e.groupIds) : e.groupIds[i] = gid

\* query(): the values of the map, filtered by type, by locked and by groupId
\* in turn; a field that is undefined is not in the domain of the filter
StoreQuery(st, filter) ==
  LET byType   == IF "type" \in DOMAIN filter /\ Truthy(filter.type)
                    THEN SelectSeq(st, LAMBDA e : e.type = filter.type)
                    ELSE st
      byLocked == IF "locked" \in DOMAIN filter
                    THEN SelectSeq(byType,
                           LAMBDA e : "locked" \in DOMAIN e /\ e.locked = filter.locked)
                    ELSE byType
  IN IF "groupId" \in DOMAIN filter /\ Truthy(filter.groupId)
       THEN SelectSeq(byLocked, LAMBDA e : InGroup(e, filter.groupId))
       ELSE byLocked

(***************************************************************************)
(* Request schemas (zod, strict).                                          *)
(***************************************************************************)
ELEMENT_TYPES ==
  {"rectangle", "ellipse", "diamond", "arrow", "text", "line", "freedraw"}

CreateFields ==
  {"type", "x", "y", "width", "height", "backgroundColor", "strokeColor",
   "strokeWidth", "roughness", "opacity", "text", "fontSize", "fontFamily",
   "groupIds", "locked", "angle", "points"}

CoordOK(v) == v >= -1000000 /\ v <= 1000000
DimOK(v)   == v >= 0 /\ v <= 100000

\* a string is the sequence of its characters
MAX_COLOR == 32

\* ColorSchema of the routes: a string of bounded length
ColorSchema(v) == Len(v) <= MAX_COLOR

FieldOK(f, v) ==
  CASE f = "type"  -> v \in ELEMENT_TYPES
    [] f = "x"     -> CoordOK(v)
    [] f = "width" -> DimOK(v)
    [] f = "backgroundColor" -> ColorSchema(v)
    [] f = "strokeColor" -> ColorSchema(v)
    [] f = "locked" -> v \in BOOLEAN
    [] OTHER       -> TRUE

\* CreateBodySchema: type and x required, every field in range, no unknown key
CreateBodyOK(b) ==
  /\ DOMAIN b \subseteq CreateFields
  /\ {"type", "x"} \subseteq DOMAIN b
  /\ \A f \in DOMAIN b : FieldOK(f, b[f])

\* the update schema without .strict(): unknown keys pass
UpdateBodyLax(b) ==
  \A f \in (DOMAIN b) \cap CreateFields : FieldOK(f, b[f])

\* UpdateBodySchema = CreateBodySchema.partial().strict()
UpdateBodyOK(b) ==
  /\ DOMAIN b \subseteq CreateFields
  /\ \A f \in DOMAIN b : FieldOK(f, b[f])

\* BatchBodySchema: 1..MAX_BATCH elements, each a valid create body
BatchBodyOK(l) ==
  /\ Len(l) >= 1
  /\ Len(l) <= MaxBatch
  /\ \A i \in 1..Len(l) : CreateBodyOK(l[i])

\* SyncBodySchema: a bounded list of arbitrary records
SyncBodyOK(l) == Len(l) <= MaxSyncLen

(***************************************************************************)
(* Bodies the clients of the model send.                                   *)
(***************************************************************************)
EmptyBody == [f \in {} |-> 0]

Copies(e, n) == [i \in 1..n |-> e]

GoodSpec == [type |-> "rectangle", x |-> 0]
BadSpec  == [type |-> "star", x |-> 7]

\* colours, as sequences of characters
Script == <<"j", "a", "v", "a", "s", "c", "r", "i", "p", "t", ":",
            "a", "l", "e", "r", "t", "(", "1", ")">>

\* bodies the schema of the route accepts
ValidCreateBodies ==
  { [type |-> "rectangle", x |-> 0],
    [type |-> "text", x |-> 3, width |-> 3, locked |-> TRUE,
     backgroundColor |-> Script] }

\* x out of range, an unknown key, no type
InvalidCreateBodies ==
  { [type |-> "rectangle", x |-> 2000000],
    [type |-> "rectangle", x |-> 0, evil |-> 1],
    [x |-> 0] }

CreateBodies == ValidCreateBodies \cup InvalidCreateBodies

ValidUpdateBodies == { [x |-> 7], EmptyBody }

\* width out of range, an unknown key, the element's identity
InvalidUpdateBodies ==
  { [x |-> 7, width |-> 200000],
    [x |-> 7, evil |-> 1],
    [id |-> 1],
    [x |-> 7, version |-> 9, createdAt |-> 0] }

UpdateBodies == ValidUpdateBodies \cup InvalidUpdateBodies

ValidBatchBodies == { <<GoodSpec>>, Copies(GoodSpec, MaxBatch) }

\* empty, one invalid element among valid ones, too long
InvalidBatchBodies ==
  { <<>>, <<GoodSpec, BadSpec>>, Copies(GoodSpec, MaxBatch + 1) }

BatchBodies == ValidBatchBodies \cup InvalidBatchBodies

\* an id the server handed out before (the first one stands for them)
KnownIds(next) == {g \in {1} : g < next}

\* empty, an own id (once, and twice), entries without a usable id (one of them
\* of no known type and far off the canvas), an id the server handed out
ValidSyncBodies(next) ==
  { <<>>, <<[id |-> 0, x |-> 7]>>, <<[id |-> 0], [id |-> 0, x |-> 7]>>,
    [i \in 1..MaxSyncLen |->
       IF i = 1 THEN [id |-> LongId, type |-> "star", x |-> 2000000]
                ELSE [x |-> 3]] }
  \cup {<<[id |-> i]>> : i \in KnownIds(next)}

\* a list over the limit
InvalidSyncBodies == { Copies([x |-> 3], MaxSyncLen + 1) }

SyncBodies(next) == ValidSyncBodies(next) \cup InvalidSyncBodies

\* a diagram is modelled by its length
ValidMermaidBodies == { [mermaidDiagram |-> 12] }

\* an empty diagram, an unknown key
InvalidMermaidBodies ==
  { [mermaidDiagram |-> 0], [mermaidDiagram |-> 12, evil |-> 1] }

MermaidBodies == ValidMermaidBodies \cup InvalidMermaidBodies

(***************************************************************************)
(* State.                                                                  *)
(***************************************************************************)
VARIABLES
  store,     \* MemoryStore.elements
  reqs,      \* the HTTP requests in flight, in order of arrival, with their locals
  resp,      \* the response sent in the last step, and what its request did
  sess,      \* the WebSocket peers: readyState and membership of `clients`
  nextId,    \* the next id generateId() returns
  now,       \* the latest reading of the wall clock
  issued,    \* requests issued so far
  stdHits,   \* standardLimiter: hits per key in the current window
  strictHits,\* strictLimiter: hits per key in the current window
  gate,      \* how the last request fared in the middleware chain
  accepted,  \* history: per key, requests of the strict tier's kinds that
             \* reached their handler in the strictLimiter's current window
  life,      \* history: per stored id, its creation time and accepted updates
  lastSet,   \* history: the call of store.set in the last step, and its outcome
  wsOut,     \* the message the last step sent to one peer alone
  hand,      \* the upgrade request verifyClient decided in the last step
  inbox,     \* history: per peer that is followed, what ws.send has handed to
             \* its socket from its initial_elements on
  disk,      \* FileStore: the files at the temporary and at the canonical path
  savers,    \* FileStore: the calls of saveToDisk in progress
  timer,     \* FileStore: the timeouts of scheduleSave that are pending
  boot,      \* FileStore: what initialize() did in the last step
  query,     \* MemoryStore.query: the filter and the result of the last call
  alone,     \* standalone mode: StandaloneStore.elements
  snapshot,  \* standalone mode: StandaloneStore.snapshot
  twin       \* the last tool call made in both modes, and its two results

handlerVars ==
  <<store, reqs, resp, sess, nextId, now, issued, life, lastSet, wsOut, hand,
    inbox>>

gateVars == <<stdHits, strictHits, gate, accepted>>

fileVars == <<disk, savers, timer, boot>>

toolVars == <<query, alone, snapshot, twin>>

vars == <<handlerVars, gateVars, fileVars, toolVars>>

\* what a request presents as X-API-Key: nothing, a wrong value as long as the
\* configured key, a wrong value of another length, the configured key
Creds == {"none", "bad", "short", "good"}

\* the limiters' keys: a presented header value, or the caller's address
Keys == {"bad", "short", "good", "ip"}

\* Buffer.from(key, 'utf8').length
KeyLength(cred) == IF cred = "short" THEN 5 ELSE 64

NoGate == [route |-> "none"]

\* locals of a handler invocation; fields a handler does not use keep these values
Blank ==
  [kind |-> "none", pc |-> "idle", id |-> 0, body |-> EmptyBody, valid |-> TRUE,
   existing |-> NoElem, cur |-> NoElem, created |-> <<>>,
   todo |-> <<>>, threw |-> FALSE, deleted |-> FALSE, ts |-> 0,
   beforeCount |-> 0, afterCount |-> 0,
   pre |-> <<>>, solo |-> TRUE, sawPartial |-> FALSE, writes |-> 0,
   n |-> 0, own |-> {}]

NoResp == [kind |-> "none"]

NoLife == [born |-> -1, nUpd |-> 0, clean |-> TRUE]

NoSet ==
  [id |-> -1, had |-> FALSE, count |-> 0, threw |-> FALSE, kept |-> TRUE,
   elid |-> -1]

\* a peer that is not connected.  state: the socket's readyState and its
\* membership of `clients`; due: getAll() of its connection has not settled;
\* snap: what that getAll() read; broken: the socket has failed underneath and
\* 'error' has not been emitted yet
NoPeer == [state |-> "none", due |-> FALSE, snap |-> <<>>, broken |-> FALSE]

NoOut == [type |-> "none", msg |-> "none"]

NoFile == [exists |-> FALSE]

NoBoot == [status |-> "none", now |-> FALSE]

NoQuery == [asked |-> FALSE]

NoTwin == [op |-> "none"]

\* snapshot = null; `at` is history: the store when checkpoint() was called,
\* `used`: restore() has put this snapshot back before
NoSnapshot == [taken |-> FALSE, elements |-> <<>>, at |-> <<>>, used |-> FALSE]

\* DEBOUNCE_MS, in ticks of the timer's clock (500 ms each)
DEBOUNCE_MS == 2

\* saveTimer = null and no timeout pending. pending: what is left of each
\* pending timeout, in the order they were set; mine: the timeout saveTimer
\* refers to is the last of them. History: since, the ticks since the last
\* mutation that succeeded (at most DEBOUNCE_MS); dirty, a mutation has
\* succeeded that no saveToDisk has read
NoTimer ==
  [pending |-> <<>>, mine |-> FALSE, since |-> DEBOUNCE_MS, dirty |-> FALSE]

\* a call of saveToDisk that is not running
Idle == [pc |-> "idle", snap |-> <<>>, off |-> 0]

NoHand == [status |-> -1]

Init ==
  /\ store = <<>>
  /\ reqs = <<>>
  /\ resp = NoResp
  /\ sess = [s \in Peers |-> NoPeer]
  /\ wsOut = NoOut
  /\ hand = NoHand
  /\ inbox = [s \in Peers |-> <<>>]
  /\ nextId = 1
  /\ now = 0
  /\ issued = 0
  /\ life = [i \in Ids |-> NoLife]
  /\ lastSet = NoSet
  /\ stdHits = [k \in Keys |-> 0]
  /\ strictHits = [k \in Keys |-> 0]
  /\ gate = NoGate
  /\ accepted = [k \in Keys |-> 0]
  /\ disk = [tmp |-> NoFile, canon |-> NoFile]
  /\ savers = [i \in 1..NSavers |-> Idle]
  /\ timer = NoTimer
  /\ boot = NoBoot
  /\ query = NoQuery
  /\ alone = <<>>
  /\ snapshot = NoSnapshot
  /\ twin = NoTwin

(***************************************************************************)
(* Helpers of the actions.                                                 *)
(***************************************************************************)
Running == 1..Len(reqs)

\* new Date(): the clock has not gone back since it was read last
Clock == {t \in {now, now + 1} : t <= MaxTime}

CanStart == issued < MaxRequests /\ Len(reqs) < MaxInflight

New(kind, fields) == Spread(Spread(Blank, [kind |-> kind]), fields)

\* the sockets ws.broadcast reaches now
OpenSessions == {s \in Peers : sess[s].state = "open"}

\* the step leaves the limiters alone and sends nothing to a peer alone
Elsewhere ==
  /\ UNCHANGED <<gateVars, fileVars, toolVars>>
  /\ wsOut' = NoOut
  /\ hand' = NoHand

\* ws.send of the events of a response: an event reaches the sockets it was
\* sent to, unless the socket has failed underneath
Heard(emitted) ==
  [s \in Peers |->
     IF inbox[s] = <<>> \/ sess[s].broken THEN inbox[s]
     ELSE LET got == SelectSeq(emitted, LAMBDA b : b.to[s] = 1)
          IN inbox[s] \o [i \in 1..Len(got) |->
                            [type |-> got[i].type, payload |-> got[i].payload]]]

\* what a finished request leaves behind: the response and a summary of its run
Response(q, status, emitted) ==
  [kind |-> q.kind, status |-> status, emitted |-> emitted, open |-> OpenSessions,
   valid |-> q.valid, solo |-> q.solo, sawPartial |-> q.sawPartial,
   writes |-> q.writes, n |-> q.n, own |-> q.own, id |-> q.id,
   found |-> q.existing # NoElem, threw |-> q.threw, pre |-> IF q.solo THEN q.pre ELSE <<>>,
   names |-> DOMAIN q.body]

\* the request q arrives and reaches its first await
Begin(q) ==
  /\ issued' = issued + 1
  /\ resp' = NoResp
  /\ reqs' = Append([o \in Running |-> [reqs[o] EXCEPT !.solo = FALSE]],
                    [q EXCEPT !.solo = (reqs = <<>>)])
  /\ inbox' = inbox
  /\ Elsewhere

\* the request q arrives and is answered before any await
Answer(q, status, emitted) ==
  /\ issued' = issued + 1
  /\ resp' = Response([q EXCEPT !.solo = (reqs = <<>>)], status, emitted)
  /\ reqs' = reqs
  /\ inbox' = Heard(emitted)
  /\ Elsewhere

\* the request r runs to its next await
Set(r, fields) ==
  /\ reqs' = [reqs EXCEPT ![r] = Spread(reqs[r], fields)]
  /\ resp' = NoResp
  /\ inbox' = inbox
  /\ Elsewhere

\* the request r sends its response
Finish(r, status, emitted) ==
  /\ reqs' = [o \in 1..(Len(reqs) - 1) |-> IF o < r THEN reqs[o] ELSE reqs[o + 1]]
  /\ resp' = Response(reqs[r], status, emitted)
  /\ inbox' = Heard(emitted)
  /\ Elsewhere

\* a sync that has cleared the store and has not finished repopulating it
SyncMid(q) ==
  /\ q.kind = "sync"
  /\ q.pc \in {"cleared", "syncing"}
  /\ (q.todo # <<>> \/ q.threw)

\* the store is in the middle of a replace of a request other than r
ObservesPartial(r) ==
  \E o \in Running \ {r} :
    SyncMid(reqs[o]) /\ reqs[o].writes > 0 /\ store # reqs[o].pre

\* ids a client names in a path: a stored one, one that is not stored (they
\* all behave alike: the lowest stands for them), an overlong one
Absent == {i \in Ids : ~StoreHas(store, i)}

PathIds ==
  StoreIds(store) \cup {i \in Absent : \A j \in Absent : i <= j} \cup {LongId}

\* ws.broadcast without the readyState test: every client of the registry
BroadcastToRegistry(type, payload) ==
  [type |-> type, payload |-> payload,
   to |-> [s \in Peers |-> IF sess[s].state # "none" THEN 1 ELSE 0]]

\* ws.broadcast: one send to every client of the registry whose socket is OPEN
Broadcast(type, payload) ==
  [type |-> type, payload |-> payload,
   to |-> [s \in Peers |-> IF sess[s].state = "open" THEN 1 ELSE 0]]

\* shared/id.ts generateId: an id no element was given before
GenerateId == nextId

\* 1 when a store call changed the store
Wrote(st) == IF st # store THEN 1 ELSE 0

LogSet(id, el, res) ==
  lastSet' = [id |-> id, had |-> StoreHas(store, id), count |-> Len(store),
              threw |-> res.threw, kept |-> res.store = store, elid |-> el.id]

(***************************************************************************)
(* POST /api/elements                                                      *)
(***************************************************************************)
CreateElement(data, id, t) ==
  Spread(data, [id |-> id, createdAt |-> t, updatedAt |-> t, version |-> 1,
                source |-> "api"])

Born(id, t) == [life EXCEPT ![id] = [born |-> t, nUpd |-> 0, clean |-> TRUE]]

CreateStart ==
  /\ CanStart
  /\ \E b \in CreateBodies :
       IF ~CreateBodyOK(b)
         THEN /\ Answer(New("create", [valid |-> b \in ValidCreateBodies]), 400, <<>>)
              /\ UNCHANGED <<store, sess, nextId, now, life>>
              /\ lastSet' = NoSet
         ELSE \E t \in Clock :
              LET id  == GenerateId
                  el  == CreateElement(b, id, t)
                  res == StoreSet(store, id, el)
              IN /\ store' = res.store
                 /\ nextId' = nextId + 1
                 /\ now' = t
                 /\ LogSet(id, el, res)
                 /\ life' = IF res.threw THEN life ELSE Born(id, t)
                 /\ Begin(New("create", [pc |-> "created", id |-> id,
                                         valid |-> b \in ValidCreateBodies,
                                         cur |-> el, threw |-> res.threw,
                                         writes |-> Wrote(res.store),
                                         sawPartial |-> ObservesPartial(0)]))
                 /\ UNCHANGED sess

CreateFinish(r) ==
  /\ r \in Running
  /\ reqs[r].kind = "create" /\ reqs[r].pc = "created"
  /\ IF reqs[r].threw
       THEN Finish(r, 409, <<>>)
       ELSE Finish(r, 201, <<Broadcast("element_created", reqs[r].cur)>>)
  /\ UNCHANGED <<store, sess, nextId, now, issued, life>>
  /\ lastSet' = NoSet

(***************************************************************************)
(* PUT /api/elements/:id                                                   *)
(***************************************************************************)
\* the update without the version bump
UpdatedElementSameVersion(existing, data, id, t) ==
  Spread(Spread(existing, data), [id |-> id, updatedAt |-> t])

UpdatedElement(existing, data, id, t) ==
  Spread(Spread(existing, data),
         [id |-> id, updatedAt |-> t, version |-> existing.version + 1])

UpdateStart ==
  /\ CanStart
  /\ \E id \in PathIds, b \in UpdateBodies :
       IF IdLength(id) > MAX_ID
         THEN Answer(New("update", [id |-> id, valid |-> b \in ValidUpdateBodies]), 400, <<>>)
         ELSE Begin(New("update", [pc |-> "got", id |-> id, body |-> b,
                                   valid |-> b \in ValidUpdateBodies,
                                   existing |-> StoreGet(store, id),
                                   sawPartial |-> ObservesPartial(0)]))
  /\ UNCHANGED <<store, sess, nextId, now, life>>
  /\ lastSet' = NoSet

UpdateWrite(r) ==
  /\ r \in Running
  /\ reqs[r].kind = "update" /\ reqs[r].pc = "got"
  /\ LET q == reqs[r] IN
     IF q.existing = NoElem
       THEN /\ Finish(r, 404, <<>>)
            /\ UNCHANGED <<store, now, life>>
            /\ lastSet' = NoSet
     ELSE IF ~UpdateBodyOK(q.body)
       THEN /\ Finish(r, 400, <<>>)
            /\ UNCHANGED <<store, now, life>>
            /\ lastSet' = NoSet
     ELSE \E t \in Clock :
          LET el  == UpdatedElement(q.existing, q.body, q.id, t)
              res == StoreSet(store, q.id, el)
          IN /\ store' = res.store
             /\ now' = t
             /\ LogSet(q.id, el, res)
             /\ life' = IF res.threw THEN life
                        ELSE [life EXCEPT ![q.id] =
                                [@ EXCEPT !.nUpd = @ + 1,
                                          !.clean = @ /\ StoreGet(store, q.id) = q.existing]]
             /\ Set(r, [pc |-> "updated", cur |-> el, threw |-> res.threw,
                        writes |-> q.writes + Wrote(res.store),
                        sawPartial |-> q.sawPartial \/ ObservesPartial(r)])
  /\ UNCHANGED <<sess, nextId, issued>>

UpdateFinish(r) ==
  /\ r \in Running
  /\ reqs[r].kind = "update" /\ reqs[r].pc = "updated"
  /\ IF reqs[r].threw
       THEN Finish(r, 500, <<>>)
       ELSE Finish(r, 200, <<Broadcast("element_updated", reqs[r].cur)>>)
  /\ UNCHANGED <<store, sess, nextId, now, issued, life>>
  /\ lastSet' = NoSet

(***************************************************************************)
(* DELETE /api/elements/:id                                                *)
(***************************************************************************)
DeleteStart ==
  /\ CanStart
  /\ \E id \in PathIds :
       IF IdLength(id) > MAX_ID
         THEN /\ Answer(New("delete", [id |-> id]), 400, <<>>)
              /\ UNCHANGED <<store, life>>
         ELSE LET res == StoreDelete(store, id)
              IN /\ store' = res.store
                 /\ life' = IF res.deleted THEN [life EXCEPT ![id] = NoLife] ELSE life
                 /\ Begin(New("delete", [pc |-> "deleted", id |-> id,
                                         deleted |-> res.deleted,
                                         writes |-> Wrote(res.store),
                                         sawPartial |-> ObservesPartial(0)]))
  /\ UNCHANGED <<sess, nextId, now>>
  /\ lastSet' = NoSet

DeleteFinish(r) ==
  /\ r \in Running
  /\ reqs[r].kind = "delete" /\ reqs[r].pc = "deleted"
  /\ IF ~reqs[r].deleted
       THEN Finish(r, 404, <<>>)
       ELSE Finish(r, 200, <<Broadcast("element_deleted", reqs[r].id)>>)
  /\ UNCHANGED <<store, sess, nextId, now, issued, life>>
  /\ lastSet' = NoSet

(***************************************************************************)
(* GET /api/elements and GET /api/elements/:id                             *)
(***************************************************************************)
ListStart ==
  /\ CanStart
  /\ Begin(New("list", [pc |-> "listed", n |-> Len(store),
                        sawPartial |-> ObservesPartial(0)]))
  /\ UNCHANGED <<store, sess, nextId, now, life>>
  /\ lastSet' = NoSet

ListFinish(r) ==
  /\ r \in Running
  /\ reqs[r].kind = "list" /\ reqs[r].pc = "listed"
  /\ Finish(r, 200, <<>>)
  /\ UNCHANGED <<store, sess, nextId, now, issued, life>>
  /\ lastSet' = NoSet

GetStart ==
  /\ CanStart
  /\ \E id \in PathIds :
       IF IdLength(id) > MAX_ID
         THEN Answer(New("get", [id |-> id]), 400, <<>>)
         ELSE Begin(New("get", [pc |-> "got", id |-> id,
                                existing |-> StoreGet(store, id),
                                sawPartial |-> ObservesPartial(0)]))
  /\ UNCHANGED <<store, sess, nextId, now, life>>
  /\ lastSet' = NoSet

GetFinish(r) ==
  /\ r \in Running
  /\ reqs[r].kind = "get" /\ reqs[r].pc = "got"
  /\ IF reqs[r].existing = NoElem
       THEN Finish(r, 404, <<>>)
       ELSE Finish(r, 200, <<>>)
  /\ UNCHANGED <<store, sess, nextId, now, issued, life>>
  /\ lastSet' = NoSet

(***************************************************************************)
(* GET /api/elements/search                                                *)
(***************************************************************************)
\* the query strings of the model: each of type, locked and groupId given
\* or left out
SearchQueries ==
  { [k \in D |-> [type |-> "rectangle", locked |-> "true", groupId |-> "A"][k]] :
      D \in SUBSET {"type", "locked", "groupId"} }

\* the filter the handler builds: locked is a boolean for 'true' and 'false'
\* and undefined otherwise
SearchFilter(qs) ==
  [k \in {d \in DOMAIN qs : d = "locked" => qs[d] \in {"true", "false"}} |->
     IF k = "locked" THEN qs[k] = "true" ELSE qs[k]]

SearchStart ==
  /\ CanStart
  /\ \E qs \in SearchQueries :
       Begin(New("search", [pc |-> "searched",
                            n |-> Len(StoreQuery(store, SearchFilter(qs))),
                            sawPartial |-> ObservesPartial(0)]))
  /\ UNCHANGED <<store, sess, nextId, now, life>>
  /\ lastSet' = NoSet

SearchFinish(r) ==
  /\ r \in Running
  /\ reqs[r].kind = "search" /\ reqs[r].pc = "searched"
  /\ Finish(r, 200, <<>>)
  /\ UNCHANGED <<store, sess, nextId, now, issued, life>>
  /\ lastSet' = NoSet

(***************************************************************************)
(* POST /api/export                                                        *)
(***************************************************************************)
\* the bodies of the model: the whole scene as svg, one element as png; an
\* unknown format, no format
ValidExportBodies ==
  { [format |-> "svg"] } \cup { [format |-> "png", elementIds |-> <<i>>] : i \in 1..2 }

InvalidExportBodies == { [format |-> "pdf"], [padding |-> 20] }

ExportBodies == ValidExportBodies \cup InvalidExportBodies

\* ExportBodySchema, for the keys of the model's bodies
ExportBodyOK(b) ==
  /\ DOMAIN b \subseteq {"format", "elementIds", "background", "padding"}
  /\ "format" \in DOMAIN b
  /\ b.format \in {"png", "svg"}
  /\ "elementIds" \in DOMAIN b =>
       /\ Len(b.elementIds) <= 500
       /\ \A i \in 1..Len(b.elementIds) : IdLength(b.elementIds[i]) <= MAX_ID
  /\ "padding" \in DOMAIN b => b.padding >= 0 /\ b.padding <= 500

\* store.getAll(), filtered by elementIds when the list is given and not empty
Exported(st, b) ==
  IF "elementIds" \in DOMAIN b /\ Len(b.elementIds) > 0
    THEN SelectSeq(st, LAMBDA e : \E i \in 1..Len(b.elementIds) : b.elementIds[i] = e.id)
    ELSE st

ExportStart ==
  /\ CanStart
  /\ \E b \in ExportBodies :
       IF ~ExportBodyOK(b)
         THEN Answer(New("export", [valid |-> b \in ValidExportBodies]), 400, <<>>)
         ELSE Begin(New("export", [pc |-> "read", valid |-> b \in ValidExportBodies,
                                   n |-> Len(Exported(store, b)),
                                   sawPartial |-> ObservesPartial(0)]))
  /\ UNCHANGED <<store, sess, nextId, now, life>>
  /\ lastSet' = NoSet

\* 'No elements to export', or the svg text or the png data
ExportFinish(r) ==
  /\ r \in Running
  /\ reqs[r].kind = "export" /\ reqs[r].pc = "read"
  /\ IF reqs[r].n = 0
       THEN Finish(r, 400, <<>>)
       ELSE Finish(r, 200, <<>>)
  /\ UNCHANGED <<store, sess, nextId, now, issued, life>>
  /\ lastSet' = NoSet

(***************************************************************************)
(* POST /api/elements/batch                                                *)
(***************************************************************************)
BatchElement(spec, id, t) ==
  Spread(spec, [id |-> id, createdAt |-> t, updatedAt |-> t, version |-> 1,
                source |-> "api_batch"])

\* one pass of the loop up to its await: generateId, build, store.set
BatchPass(spec, t) ==
  LET id == GenerateId
      el == BatchElement(spec, id, t)
  IN [id |-> id, el |-> el, res |-> StoreSet(store, id, el)]

\* the pass p takes effect on the store (and on the history)
Stored(p, t, generated) ==
  /\ store' = p.res.store
  /\ nextId' = IF generated THEN nextId + 1 ELSE nextId
  /\ LogSet(p.id, p.el, p.res)
  /\ life' = IF p.res.threw THEN life ELSE Born(p.id, t)

BatchStart ==
  /\ CanStart
  /\ \E l \in BatchBodies :
       IF ~BatchBodyOK(l)
         THEN /\ Answer(New("batch", [valid |-> l \in ValidBatchBodies, n |-> Len(l)]),
                     400, <<>>)
              /\ UNCHANGED <<store, nextId, now, life>>
              /\ lastSet' = NoSet
         ELSE \E t \in Clock :
              LET p == BatchPass(l[1], t)
              IN /\ Stored(p, t, TRUE)
                 /\ now' = t
                 /\ Begin(New("batch", [pc |-> "batching", n |-> Len(l), ts |-> t,
                                        valid |-> l \in ValidBatchBodies,
                                        cur |-> p.el, todo |-> Tail(l),
                                        threw |-> p.res.threw,
                                        writes |-> Wrote(p.res.store),
                                        sawPartial |-> ObservesPartial(0)]))
  /\ UNCHANGED sess

BatchStep(r) ==
  /\ r \in Running
  /\ reqs[r].kind = "batch" /\ reqs[r].pc = "batching"
  /\ LET q == reqs[r]
         created == Append(q.created, q.cur)
     IN
     IF q.threw
       THEN /\ Finish(r, 409, <<>>)
            /\ UNCHANGED <<store, nextId, life>>
            /\ lastSet' = NoSet
     ELSE IF q.todo = <<>>
       THEN /\ Finish(r, 201, <<Broadcast("elements_batch_created", created)>>)
            /\ UNCHANGED <<store, nextId, life>>
            /\ lastSet' = NoSet
     ELSE LET p == BatchPass(Head(q.todo), q.ts)
          IN /\ Stored(p, q.ts, TRUE)
             /\ Set(r, [created |-> created, cur |-> p.el, todo |-> Tail(q.todo),
                        threw |-> p.res.threw,
                        writes |-> q.writes + Wrote(p.res.store),
                        sawPartial |-> q.sawPartial \/ ObservesPartial(r)])
  /\ UNCHANGED <<sess, now, issued>>

(***************************************************************************)
(* POST /api/elements/sync                                                 *)
(***************************************************************************)
HasOwnId(raw) == "id" \in DOMAIN raw /\ IdLength(raw.id) <= MAX_ID

Default(raw, f, d) == IF f \in DOMAIN raw THEN raw[f] ELSE d

SyncElement(raw, id, t) ==
  Spread([id |-> id, type |-> Default(raw, "type", "rectangle"),
          x |-> Default(raw, "x", 0),
          createdAt |-> t, updatedAt |-> t, version |-> 1, source |-> "sync"],
         [f \in (DOMAIN raw) \cap {"width"} |-> raw[f]])

SyncPass(raw, t) ==
  LET id == IF HasOwnId(raw) THEN raw.id ELSE GenerateId
      el == SyncElement(raw, id, t)
  IN [id |-> id, el |-> el, res |-> StoreSet(store, id, el)]

\* the ids the entries of a list carry themselves
OwnIds(l) == {l[i].id : i \in {j \in 1..Len(l) : HasOwnId(l[j])}}

SyncStart ==
  /\ CanStart
  /\ \E l \in SyncBodies(nextId) :
       IF ~SyncBodyOK(l)
         THEN Answer(New("sync", [valid |-> l \notin InvalidSyncBodies, n |-> Len(l)]),
                     400, <<>>)
         ELSE Begin(New("sync", [pc |-> "counted", n |-> Len(l), own |-> OwnIds(l),
                                 valid |-> l \notin InvalidSyncBodies,
                                 todo |-> l,
                                 beforeCount |-> StoreCount(store), pre |-> store,
                                 sawPartial |-> ObservesPartial(0)]))
  /\ UNCHANGED <<store, sess, nextId, now, life>>
  /\ lastSet' = NoSet

SyncClear(r) ==
  /\ r \in Running
  /\ reqs[r].kind = "sync" /\ reqs[r].pc = "counted"
  /\ store' = StoreClear(store)
  /\ \E t \in Clock :
       /\ now' = t
       /\ Set(r, [pc |-> "cleared", ts |-> t,
                  writes |-> reqs[r].writes + Wrote(StoreClear(store)),
                  sawPartial |-> reqs[r].sawPartial \/ ObservesPartial(r)])
  /\ life' = [i \in Ids |-> NoLife]
  /\ UNCHANGED <<sess, nextId, issued>>
  /\ lastSet' = NoSet

SyncStep(r) ==
  /\ r \in Running
  /\ reqs[r].kind = "sync" /\ reqs[r].pc \in {"cleared", "syncing"}
  /\ LET q == reqs[r] IN
     IF q.threw
       THEN /\ Finish(r, 500, <<>>)
            /\ UNCHANGED <<store, nextId, life>>
            /\ lastSet' = NoSet
     ELSE IF q.todo = <<>>
       THEN /\ Set(r, [pc |-> "recounted", afterCount |-> StoreCount(store)])
            /\ UNCHANGED <<store, nextId, life>>
            /\ lastSet' = NoSet
     ELSE LET p == SyncPass(Head(q.todo), q.ts)
          IN /\ Stored(p, q.ts, ~HasOwnId(Head(q.todo)))
             /\ Set(r, [pc |-> "syncing", cur |-> p.el, todo |-> Tail(q.todo),
                        threw |-> p.res.threw,
                        writes |-> q.writes + Wrote(p.res.store),
                        sawPartial |-> q.sawPartial \/ ObservesPartial(r)])
  /\ UNCHANGED <<sess, now, issued>>

SyncFinish(r) ==
  /\ r \in Running
  /\ reqs[r].kind = "sync" /\ reqs[r].pc = "recounted"
  /\ Finish(r, 200, <<Broadcast("sync_status", reqs[r].afterCount)>>)
  /\ UNCHANGED <<store, sess, nextId, now, issued, life>>
  /\ lastSet' = NoSet

(***************************************************************************)
(* POST /api/elements/from-mermaid                                         *)
(***************************************************************************)
MAX_MERMAID == 50000

MermaidBodyOK(b) ==
  /\ DOMAIN b \subseteq {"mermaidDiagram", "config"}
  /\ "mermaidDiagram" \in DOMAIN b
  /\ b.mermaidDiagram >= 1
  /\ b.mermaidDiagram <= MAX_MERMAID

Mermaid ==
  /\ CanStart
  /\ \E b \in MermaidBodies :
       IF ~MermaidBodyOK(b)
         THEN Answer(New("mermaid", [valid |-> b \in ValidMermaidBodies]), 400, <<>>)
         ELSE Answer(New("mermaid", [valid |-> b \in ValidMermaidBodies]), 200,
                     <<Broadcast("mermaid_convert", b.mermaidDiagram)>>)
  /\ UNCHANGED <<store, sess, nextId, now, life>>
  /\ lastSet' = NoSet

(***************************************************************************)
(* WebSocket peers                                                         *)
(***************************************************************************)
\* 'connection': the socket joins `clients` (the catch-up is not followed here)
WsConnect(s) ==
  /\ sess[s].state = "none"
  /\ sess' = [sess EXCEPT ![s].state = "open"]
  /\ UNCHANGED <<store, reqs, nextId, now, issued, life>>
  /\ resp' = NoResp
  /\ lastSet' = NoSet
  /\ inbox' = inbox
  /\ Elsewhere

\* the closing handshake starts: readyState leaves OPEN
WsClosing(s) ==
  /\ sess[s].state = "open"
  /\ sess' = [sess EXCEPT ![s].state = "closing"]
  /\ UNCHANGED <<store, reqs, nextId, now, issued, life>>
  /\ resp' = NoResp
  /\ lastSet' = NoSet
  /\ inbox' = inbox
  /\ Elsewhere

\* 'close': the socket leaves `clients`
WsClosed(s) ==
  /\ sess[s].state \in {"open", "closing"}
  /\ sess' = [sess EXCEPT ![s] = NoPeer]
  /\ UNCHANGED <<store, reqs, nextId, now, issued, life>>
  /\ resp' = NoResp
  /\ lastSet' = NoSet
  /\ inbox' = [inbox EXCEPT ![s] = <<>>]
  /\ Elsewhere

(***************************************************************************)
(* The session registry in detail: the upgrade request, the catch-up of a  *)
(* new peer, the peer's own messages, a socket that fails.                 *)
(***************************************************************************)
\* config.CORS_ALLOWED_ORIGINS, split at the commas and trimmed
AllowedOrigins == {"http://localhost:3000", "http://127.0.0.1:3000"}

\* the Origin header of an upgrade request: absent ("none"), an entry of the
\* list, an origin that only starts like an entry
Origins ==
  {"none", "http://localhost:3000", "http://localhost:3000.evil.example"}

\* verifyClient with the token looked at before the origin
VerifyClientTokenFirst(origin, token) ==
  IF token = "none" THEN 401
  ELSE IF KeyLength("good") # KeyLength(token) \/ token # "good" THEN 403
  ELSE IF origin # "none" /\ origin \notin AllowedOrigins THEN 403
  ELSE 0

\* verifyClient: 0 stands for callback(true)
VerifyClient(origin, token) ==
  IF origin # "none" /\ origin \notin AllowedOrigins THEN 403
  ELSE IF token = "none" THEN 401
  ELSE IF KeyLength("good") # KeyLength(token) \/ token # "good" THEN 403
  ELSE 0

\* an upgrade request: verifyClient and, when it accepts, 'connection': the
\* socket joins `clients` and store.getAll() is called
WsUpgrade(s) ==
  /\ sess[s].state = "none"
  /\ \E origin \in Origins, token \in Creds :
       LET status == VerifyClient(origin, token)
       IN /\ sess' = IF status = 0
                       THEN [sess EXCEPT ![s] = [state |-> "open", due |-> TRUE,
                                                 snap |-> store, broken |-> FALSE]]
                       ELSE sess
          /\ hand' = [origin |-> origin, token |-> token, status |-> status,
                      joined |-> status = 0]
  /\ inbox' = inbox
  /\ wsOut' = NoOut
  /\ resp' = NoResp
  /\ lastSet' = NoSet
  /\ UNCHANGED <<store, reqs, nextId, now, issued, life, gateVars, fileVars, toolVars>>

\* getAll() of a connection has settled: initial_elements goes to the socket
\* if it is OPEN. With `kept`, what the socket is sent from here on is kept
\* in `inbox`.
CatchUp(s, kept) ==
  /\ sess' = [sess EXCEPT ![s].due = FALSE, ![s].snap = <<>>]
  /\ wsOut' = IF sess[s].state = "open"
                THEN [type |-> "initial_elements", to |-> s, msg |-> "none",
                      due |-> TRUE, full |-> sess[s].snap = store]
                ELSE NoOut
  /\ inbox' = IF sess[s].state = "open" /\ kept
                THEN [inbox EXCEPT ![s] =
                        <<[type |-> "initial_elements", payload |-> sess[s].snap]>>]
                ELSE inbox
  /\ hand' = NoHand
  /\ resp' = NoResp
  /\ lastSet' = NoSet
  /\ UNCHANGED <<store, reqs, nextId, now, issued, life, gateVars, fileVars, toolVars>>

WsCatchUp(s) ==
  /\ sess[s].due
  /\ CatchUp(s, FALSE)

\* the same step of a peer whose messages are followed
WsCatchUpHeard(s) ==
  /\ sess[s].due
  /\ CatchUp(s, TRUE)

\* what the peers of the model send: a ping, a sync_request, a text that is
\* no JSON, a JSON value that is neither of the two ("shape"), and a frame
\* longer than maxPayload ("huge", no JSON either)
ClientMessages == {"ping", "sync_request", "junk", "shape", "huge"}

\* a 'message' handler that answers pings only
ReplySilent(m) == IF m = "ping" THEN "sync_status" ELSE "none"

\* 'message': the type of the reply, "none" when there is no reply
Reply(m) ==
  IF m = "ping" THEN "sync_status"
  ELSE IF m = "sync_request" THEN "none"
  ELSE "error"

\* maxPayload: the receiver fails on a longer frame before there is a message
TooLarge(m) == m = "huge"

\* a frame from an OPEN peer. Within maxPayload it is handed to 'message',
\* which answers the socket it came from. Beyond it the socket is closed
\* (1009) and 'error' is emitted, whose handler takes it out of `clients`.
WsMessage(s) ==
  /\ sess[s].state = "open"
  /\ \E m \in ClientMessages :
       /\ wsOut' = LET type == IF TooLarge(m) THEN "none" ELSE Reply(m)
                    IN [type |-> type, to |-> s, msg |-> m, full |-> FALSE,
                        due |-> type # "none" /\ sess[s].due,
                        \* the elementCount the reply to a ping is given
                        count |-> 0]
       /\ sess' = IF TooLarge(m) THEN [sess EXCEPT ![s] = NoPeer] ELSE sess
       /\ inbox' = IF TooLarge(m) THEN [inbox EXCEPT ![s] = <<>>] ELSE inbox
  /\ hand' = NoHand
  /\ resp' = NoResp
  /\ lastSet' = NoSet
  /\ UNCHANGED <<store, reqs, nextId, now, issued, life, gateVars, fileVars, toolVars>>

\* the connection under an OPEN socket is lost: sends to it fail from now on
WsBreak(s) ==
  /\ sess[s].state = "open" /\ ~sess[s].broken
  /\ sess' = [sess EXCEPT ![s].broken = TRUE]
  /\ UNCHANGED <<store, reqs, nextId, now, issued, life>>
  /\ resp' = NoResp
  /\ lastSet' = NoSet
  /\ inbox' = inbox
  /\ Elsewhere

\* an 'error' handler that only logs
WsErrorLogged(s) ==
  /\ sess[s].broken
  /\ sess' = sess
  /\ UNCHANGED <<store, reqs, nextId, now, issued, life>>
  /\ resp' = NoResp
  /\ lastSet' = NoSet
  /\ inbox' = inbox
  /\ Elsewhere

\* 'error': the socket leaves `clients`
WsError(s) ==
  /\ sess[s].broken
  /\ sess' = [sess EXCEPT ![s] = NoPeer]
  /\ UNCHANGED <<store, reqs, nextId, now, issued, life>>
  /\ resp' = NoResp
  /\ lastSet' = NoSet
  /\ inbox' = [inbox EXCEPT ![s] = <<>>]
  /\ Elsewhere

(***************************************************************************)
(* FileStore: a MemoryStore whose writes schedule a debounced saveToDisk.  *)
(* A file is the sequence of parts written to it and the saveToDisk calls  *)
(* that hold it open; rename moves the file, open descriptors included.    *)
(***************************************************************************)
Hole == [doc |-> <<>>, part |-> 0]

\* the k-th part of the JSON document of a snapshot
Chunk(snap, k) == [doc |-> snap, part |-> k]

\* open(path, 'w'): the file is created, or truncated where it is
OpenW(f, i) ==
  IF f = NoFile THEN [exists |-> TRUE, data |-> <<>>, fds |-> {i}]
  ELSE [f EXCEPT !.data = <<>>, !.fds = @ \cup {i}]

\* write(fd) at the position k of the descriptor
WriteAt(f, k, c) ==
  [f EXCEPT !.data = [j \in 1..(IF k > Len(@) THEN k ELSE Len(@)) |->
                        IF j = k THEN c ELSE IF j <= Len(@) THEN @[j] ELSE Hole]]

HeldBy(f, i) == f # NoFile /\ i \in f.fds

\* close(fd)
CloseFd(f, i) == IF HeldBy(f, i) THEN [f EXCEPT !.fds = @ \ {i}] ELSE f

\* what FileStore.set stores in the model: an element of the create route
\* and one of the sync route whose own id is the empty string
FileElements ==
  { CreateElement([type |-> "rectangle", x |-> 0], 0, 0),
    SyncElement([id |-> EmptyId], EmptyId, 0) }

\* the server process is up: its last initialize() did not throw
Up == boot.status # "failed"

FileQuiet ==
  /\ UNCHANGED <<reqs, sess, inbox, nextId, now, issued, life, gateVars, toolVars>>
  /\ boot' = [boot EXCEPT !.now = FALSE]
  /\ resp' = NoResp
  /\ lastSet' = NoSet
  /\ wsOut' = NoOut
  /\ hand' = NoHand

\* a scheduleSave that leaves the timeout before it pending
ScheduleSaveKeeping(tm) ==
  [tm EXCEPT !.pending = Append(@, DEBOUNCE_MS), !.mine = TRUE]

\* scheduleSave: clearTimeout(saveTimer) if there is one, then a new timeout.
\* saveTimer is not set back when its timeout has run; clearing it then
\* does nothing.
ScheduleSave(tm) ==
  [tm EXCEPT !.pending = Append(IF tm.mine THEN SubSeq(@, 1, Len(@) - 1) ELSE @,
                                DEBOUNCE_MS),
             !.mine = TRUE]

\* history: a mutation has succeeded now
Mutated(tm) == [tm EXCEPT !.since = 0, !.dirty = TRUE]

\* FileStore.set: memory.set, then scheduleSave
FileSet ==
  /\ Up
  /\ \E el \in FileElements :
       LET res == StoreSet(store, el.id, el)
       IN /\ store' = res.store
          /\ timer' = IF res.threw THEN timer ELSE Mutated(ScheduleSave(timer))
  /\ UNCHANGED <<disk, savers>>
  /\ FileQuiet

\* FileStore.delete: memory.delete, then scheduleSave if it has deleted
FileDelete ==
  /\ Up
  /\ \E id \in {el.id : el \in FileElements} :
       LET res == StoreDelete(store, id)
       IN /\ store' = res.store
          /\ timer' = IF res.deleted THEN Mutated(ScheduleSave(timer)) ELSE timer
  /\ UNCHANGED <<disk, savers>>
  /\ FileQuiet

\* FileStore.clear: memory.clear, then scheduleSave
FileClear ==
  /\ Up
  /\ store' = StoreClear(store)
  /\ timer' = Mutated(ScheduleSave(timer))
  /\ UNCHANGED <<disk, savers>>
  /\ FileQuiet

\* a pending timeout is due
Due(tm) == {k \in 1..Len(tm.pending) : tm.pending[k] = 0}

\* a tick of the clock: a timeout that is due runs before the clock moves on
Tick ==
  /\ Due(timer) = {}
  /\ timer.pending # <<>> \/ timer.since < DEBOUNCE_MS
  /\ timer' = [timer EXCEPT
                 !.pending = [k \in 1..Len(@) |-> @[k] - 1],
                 !.since = IF @ < DEBOUNCE_MS THEN @ + 1 ELSE @]
  /\ UNCHANGED <<store, disk, savers>>
  /\ FileQuiet

\* a timeout runs: saveToDisk is called and reads memory.getAll()
SaveBegin(i) ==
  /\ Due(timer) # {}
  /\ savers[i].pc = "idle"
  /\ \A j \in 1..(i - 1) : savers[j].pc # "idle"
  /\ LET k == CHOOSE d \in Due(timer) : \A e \in Due(timer) : d <= e
     IN timer' = [timer EXCEPT
                    !.pending = [j \in 1..(Len(@) - 1) |-> IF j < k THEN @[j] ELSE @[j + 1]],
                    !.mine = @ /\ k < Len(timer.pending),
                    !.dirty = FALSE]
  /\ savers' = [savers EXCEPT ![i] = [pc |-> "read", snap |-> store, off |-> 0]]
  /\ UNCHANGED <<store, disk>>
  /\ FileQuiet

\* fs.writeFile(tmpPath) opens the temporary file
SaveOpen(i) ==
  /\ savers[i].pc = "read"
  /\ disk' = [disk EXCEPT !.tmp = OpenW(@, i)]
  /\ savers' = [savers EXCEPT ![i].pc = "writing", ![i].off = 1]
  /\ UNCHANGED <<store, timer>>
  /\ FileQuiet

\* fs.writeFile writes the next part through its descriptor, and closes the
\* file after the last
SaveWrite(i) ==
  /\ savers[i].pc = "writing"
  /\ LET k    == savers[i].off
         c    == Chunk(savers[i].snap, k)
         last == k = NChunks
         W(f) == IF HeldBy(f, i)
                   THEN IF last THEN CloseFd(WriteAt(f, k, c), i) ELSE WriteAt(f, k, c)
                   ELSE f
     IN /\ disk' = [tmp |-> W(disk.tmp), canon |-> W(disk.canon)]
        /\ savers' = [savers EXCEPT ![i].off = k + 1,
                                    ![i].pc = IF last THEN "written" ELSE "writing"]
  /\ UNCHANGED <<store, timer>>
  /\ FileQuiet

\* fs.rename(tmpPath, filePath); it fails when the temporary file is gone
SaveRename(i) ==
  /\ savers[i].pc = "written"
  /\ disk' = IF disk.tmp = NoFile THEN disk
             ELSE [tmp |-> NoFile, canon |-> disk.tmp]
  /\ savers' = [savers EXCEPT ![i] = Idle]
  /\ UNCHANGED <<store, timer>>
  /\ FileQuiet

\* files that no saveToDisk has written: a text that is no JSON, and a JSON
\* document without an element list
Garbled  == [doc |-> <<>>, part |-> 0 - 1]
Listless == [doc |-> <<>>, part |-> 0 - 2]

ForeignFiles ==
  {[exists |-> TRUE, data |-> <<c>>, fds |-> {}] : c \in {Garbled, Listless}}

\* the canonical file is replaced from outside the server
Foreign ==
  /\ \E f \in ForeignFiles : disk' = [disk EXCEPT !.canon = f]
  /\ UNCHANGED <<store, savers, timer>>
  /\ FileQuiet

\* a parse that takes whatever it cannot read for an empty list
ParsedLenient(f) ==
  IF f = NoFile THEN {[ok |-> TRUE, found |-> FALSE, elements |-> <<>>]}
  ELSE IF Len(f.data) = NChunks /\ \A k \in 1..NChunks : f.data[k].part = k
    THEN {[ok |-> TRUE, found |-> TRUE, elements |-> f.data[1].doc]}
  ELSE {[ok |-> TRUE, found |-> TRUE, elements |-> <<>>]}

\* ENOENT: there is nothing to load
Fresh == [ok |-> TRUE, found |-> FALSE, elements |-> <<>>]

\* JSON.parse(readFile(filePath)) and parsed.elements. A text that lacks a
\* part of its document, or has a hole, is no JSON. A text put together from
\* the parts of several documents may be no JSON, or may read as one of them.
Parsed(f) ==
  IF f = NoFile THEN {Fresh}
  ELSE IF f.data = <<Listless>>
    THEN {[ok |-> TRUE, found |-> TRUE, elements |-> <<>>]}
  ELSE IF Len(f.data) # NChunks \/ \E k \in 1..Len(f.data) : f.data[k].part # k
    THEN {[ok |-> FALSE, found |-> TRUE, elements |-> <<>>]}
  ELSE {[ok |-> TRUE, found |-> TRUE, elements |-> f.data[k].doc] : k \in 1..NChunks}
         \cup {[ok |-> FALSE, found |-> TRUE, elements |-> <<>>] :
                 k \in {j \in 1..NChunks : f.data[j].doc # f.data[1].doc}}

\* el.id && typeof el.id === 'string'
ValidId(el) == "id" \in DOMAIN el /\ IdLength(el.id) > 0

\* the loop of initialize: memory.set for every entry with a valid id
RECURSIVE Replay(_, _)
Replay(st, els) ==
  IF els = <<>> THEN [store |-> st, threw |-> FALSE]
  ELSE IF ~ValidId(Head(els)) THEN Replay(st, Tail(els))
  ELSE LET res == StoreSet(st, Head(els).id, Head(els))
       IN IF res.threw THEN [store |-> st, threw |-> TRUE]
          ELSE Replay(res.store, Tail(els))

\* close of every descriptor of a process that is gone
Shut(f) == IF f = NoFile THEN f ELSE [f EXCEPT !.fds = {}]

\* the server process is started anew: main() builds a FileStore over the
\* same directory and awaits initialize(); when that throws, main().catch
\* ends the process. Whatever the process before had in memory, its timer
\* and its unfinished saves are gone.
Initialize ==
  /\ \E p \in Parsed(disk.canon) :
       LET run == IF p.ok THEN Replay(<<>>, p.elements)
                  ELSE [store |-> <<>>, threw |-> TRUE]
       IN /\ store' = IF run.threw THEN <<>> ELSE run.store
          /\ boot' = [status |-> IF run.threw THEN "failed"
                                 ELSE IF p.found THEN "ok" ELSE "fresh",
                      now |-> TRUE]
  /\ savers' = [i \in 1..NSavers |-> Idle]
  /\ timer' = NoTimer
  /\ disk' = [tmp |-> Shut(disk.tmp), canon |-> Shut(disk.canon)]
  /\ UNCHANGED <<reqs, sess, inbox, nextId, now, issued, life, gateVars, toolVars>>
  /\ resp' = NoResp
  /\ lastSet' = NoSet
  /\ wsOut' = NoOut
  /\ hand' = NoHand

NextFile ==
  \/ FileSet \/ FileClear \/ Tick \/ Foreign \/ Initialize
  \/ \E i \in 1..NSavers :
       SaveBegin(i) \/ SaveOpen(i) \/ SaveWrite(i) \/ SaveRename(i)

(***************************************************************************)
(* MemoryStore.query, on stores filled by set().                           *)
(***************************************************************************)
\* what the callers of the model store
QueryElements ==
  { CreateElement([type |-> "rectangle", x |-> 0], 0, 0),
    CreateElement([type |-> "ellipse", x |-> 0, locked |-> FALSE,
                   groupIds |-> <<"A">>], 0, 0),
    CreateElement([type |-> "rectangle", x |-> 0, locked |-> TRUE,
                   groupIds |-> <<"A", "B">>], 1, 0),
    CreateElement([type |-> "rectangle", x |-> 0, locked |-> FALSE], 1, 0),
    CreateElement([type |-> "ellipse", x |-> 0, groupIds |-> <<"B">>], 2, 0) }

\* the filters: any of the three fields, or none
Restrict(f, D) == [k \in D |-> f[k]]

Filters ==
  { Restrict([type |-> t, locked |-> l, groupId |-> g], D) :
      t \in {"rectangle", "ellipse", ""}, l \in BOOLEAN, g \in {"A", "B", ""},
      D \in SUBSET {"type", "locked", "groupId"} }

ToolQuiet ==
  /\ UNCHANGED <<reqs, sess, inbox, nextId, now, issued, life, gateVars, fileVars>>
  /\ resp' = NoResp
  /\ lastSet' = NoSet
  /\ wsOut' = NoOut
  /\ hand' = NoHand

\* store.set
Put ==
  /\ \E el \in QueryElements : store' = StoreSet(store, el.id, el).store
  /\ query' = NoQuery
  /\ UNCHANGED <<alone, snapshot, twin>>
  /\ ToolQuiet

\* store.query
Query ==
  /\ \E f \in Filters : query' = [asked |-> TRUE, filter |-> f, result |-> StoreQuery(store, f)]
  /\ UNCHANGED <<store, alone, snapshot, twin>>
  /\ ToolQuiet

NextQuery == Put \/ Query

(***************************************************************************)
(* StandaloneStore: a MemoryStore with replaceAll.                         *)
(***************************************************************************)
\* the longest list replaceAll is called with in the model
MaxReplace == MaxElements + 1

\* the loop `for (const el of elements) await this.set(el.id, el)`: it ends
\* at the first set() that throws, with what it has stored so far
RECURSIVE SetEach(_, _)
SetEach(st, els) ==
  IF els = <<>> THEN [store |-> st, threw |-> FALSE]
  ELSE LET res == StoreSet(st, Head(els).id, Head(els))
       IN IF res.threw THEN [store |-> st, threw |-> TRUE]
          ELSE SetEach(res.store, Tail(els))

\* replaceAll: clear(), then set() for each element
ReplaceAll(st, els) == SetEach(StoreClear(st), els)

\* the fields createElement and sync of the adapter copy from their argument
AdapterFields ==
  {"type", "x", "width", "backgroundColor", "strokeColor", "groupIds", "locked"}

Copied(data) == [f \in (DOMAIN data) \cap AdapterFields |-> data[f]]

AdapterElement(data, id, t, source) ==
  Spread(Copied(data), [id |-> id, createdAt |-> t, updatedAt |-> t,
                        version |-> 1, source |-> source])

\* what the callers of replaceAll pass in the model: elements with three ids
AloneElements ==
  { AdapterElement([type |-> "rectangle", x |-> 0], i, 0, "standalone-sync") :
      i \in 0..2 }
    \cup { AdapterElement([type |-> "ellipse", x |-> 7], 0, 0, "standalone-sync") }

\* lists without a repeated id
AloneLists ==
  { l \in UNION {[1..n -> AloneElements] : n \in 0..MaxReplace} :
      \A i, j \in 1..Len(l) : i # j => l[i].id # l[j].id }

AloneQuiet ==
  /\ UNCHANGED <<store, reqs, sess, inbox, nextId, now, issued, life, gateVars,
               fileVars>>
  /\ query' = NoQuery
  /\ resp' = NoResp
  /\ lastSet' = NoSet
  /\ wsOut' = NoOut
  /\ hand' = NoHand

\* store.set on the standalone store
AloneSet ==
  /\ \E el \in AloneElements :
       LET res == StoreSet(alone, el.id, el)
       IN /\ alone' = res.store
          /\ twin' = [op |-> "set", list |-> <<el>>, before |-> alone,
                      threw |-> res.threw]
  /\ UNCHANGED snapshot
  /\ AloneQuiet

\* store.delete on the standalone store
AloneDelete ==
  /\ \E id \in StoreIds(alone) \cup {MaxElements} :
       /\ alone' = StoreDelete(alone, id).store
       /\ twin' = [op |-> "delete", list |-> <<>>, before |-> alone,
                   threw |-> FALSE]
  /\ UNCHANGED snapshot
  /\ AloneQuiet

\* structuredClone of an element: a copy, field by field
Clone(el) == [f \in DOMAIN el |-> el[f]]

\* new Map(pairs): a later pair with the key of an earlier one takes its place
RECURSIVE MapOf(_, _)
MapOf(m, els) ==
  IF els = <<>> THEN m
  ELSE LET el == Head(els)
       IN MapOf(IF StoreHas(m, el.id)
                  THEN [i \in 1..Len(m) |-> IF m[i].id = el.id THEN el ELSE m[i]]
                  ELSE Append(m, el),
                Tail(els))

\* checkpoint(): getAll(), a clone of each element keyed by its id
Checkpoint(st) == MapOf(<<>>, [i \in 1..Len(st) |-> Clone(st[i])])

\* a restore that puts the snapshot on top of what is stored
RestoreOnTop(st, snap) ==
  IF ~snap.taken THEN [returned |-> FALSE, store |-> st, threw |-> FALSE]
  ELSE LET res == SetEach(st, snap.elements)
       IN [returned |-> ~res.threw, store |-> res.store, threw |-> res.threw]

\* restore(): false without a snapshot; else clear(), then set() for each entry
Restore(st, snap) ==
  IF ~snap.taken THEN [returned |-> FALSE, store |-> st, threw |-> FALSE]
  ELSE LET res == SetEach(StoreClear(st), snap.elements)
       IN [returned |-> ~res.threw, store |-> res.store, threw |-> res.threw]

\* store.checkpoint on the standalone store
AloneCheckpoint ==
  /\ snapshot' = [taken |-> TRUE, elements |-> Checkpoint(alone), at |-> alone,
                  used |-> FALSE]
  /\ alone' = alone
  /\ twin' = [op |-> "checkpoint", list |-> <<>>, before |-> alone,
              threw |-> FALSE, returned |-> StoreCount(alone)]
  /\ AloneQuiet

\* store.restore on the standalone store
AloneRestore ==
  /\ LET res == Restore(alone, snapshot)
     IN /\ alone' = res.store
        /\ twin' = [op |-> "restore", list |-> <<>>, before |-> alone,
                    threw |-> res.threw, returned |-> res.returned,
                    again |-> snapshot.used]
        /\ snapshot' = [snapshot EXCEPT !.used = @ \/ res.returned]
  /\ AloneQuiet

\* store.replaceAll on the standalone store
AloneReplaceAll ==
  /\ \E l \in AloneLists :
       LET res == ReplaceAll(alone, l)
       IN /\ alone' = res.store
          /\ twin' = [op |-> "replaceAll", list |-> l, before |-> alone,
                      threw |-> res.threw]
  /\ UNCHANGED snapshot
  /\ AloneQuiet

NextAlone ==
  \/ AloneSet \/ AloneDelete \/ AloneReplaceAll
  \/ AloneCheckpoint \/ AloneRestore

(***************************************************************************)
(* The MCP tools in their two modes. Connected, CanvasClient sends each    *)
(* call as one request to the canvas server and throws on a status that is *)
(* not 2xx; the requests of one caller do not overlap, so a request is     *)
(* taken from arrival to answer in one step. Standalone,                   *)
(* CanvasClientAdapter works on a StandaloneStore of the same capacity.    *)
(***************************************************************************)
\* what a call gives its caller: elements and a plain value, or an exception
Returned(els, info) == [threw |-> FALSE, els |-> els, info |-> info]

Thrown == [threw |-> TRUE, els |-> <<>>, info |-> 0]

Outcome(st, result) == [store |-> st, result |-> result]

\* the arguments the tools pass on after their own schemas
ToolCreateArgs == ValidCreateBodies

ToolUpdateArgs == {[x |-> 7], [locked |-> FALSE]}

ToolIds == 0..2

ToolBatchArgs == ValidBatchBodies

\* queryElementsTool: the filter as strings, a field only when it is truthy
\* (type, groupId) or defined (locked)
ToolFilters ==
  { Restrict([type |-> t, locked |-> l], D) :
      t \in {"rectangle", "text"}, l \in {"true", "false"},
      D \in SUBSET {"type", "locked"} }

\* sync lists: entries with an own id, type and position, with a further
\* attribute, with the empty string as id
ToolSyncArgs ==
  { <<>>,
    <<[id |-> 0, type |-> "rectangle", x |-> 7]>>,
    <<[id |-> 0, type |-> "ellipse", x |-> 0, width |-> 3],
      [id |-> 2, type |-> "rectangle", x |-> 7]>>,
    <<[id |-> 0, type |-> "text", x |-> 3, locked |-> TRUE]>>,
    <<[id |-> EmptyId, type |-> "rectangle", x |-> 0]>> }

\* the i-th id a call generates
NthId(next, i) == next + i - 1

\* ---- connected: the routes of the canvas server ----
ClientCreate(st, data, id, t) ==
  IF ~CreateBodyOK(data) THEN Outcome(st, Thrown)
  ELSE LET el  == CreateElement(data, id, t)
           res == StoreSet(st, id, el)
       IN IF res.threw THEN Outcome(st, Thrown)
          ELSE Outcome(res.store, Returned(<<el>>, 0))

ClientUpdate(st, id, data, t) ==
  IF IdLength(id) > MAX_ID \/ ~StoreHas(st, id) \/ ~UpdateBodyOK(data)
    THEN Outcome(st, Thrown)
  ELSE LET el  == UpdatedElement(StoreGet(st, id), data, id, t)
           res == StoreSet(st, id, el)
       IN IF res.threw THEN Outcome(st, Thrown)
          ELSE Outcome(res.store, Returned(<<el>>, 0))

ClientDelete(st, id) ==
  IF IdLength(id) > MAX_ID THEN Outcome(st, Thrown)
  ELSE LET res == StoreDelete(st, id)
       IN Outcome(res.store, Returned(<<>>, res.deleted))

ClientBatch(st, l, next, t) ==
  IF ~BatchBodyOK(l) THEN Outcome(st, Thrown)
  ELSE LET els == [i \in 1..Len(l) |-> BatchElement(l[i], NthId(next, i), t)]
           res == SetEach(st, els)
       IN IF res.threw THEN Outcome(res.store, Thrown)
          ELSE Outcome(res.store, Returned(els, 0))

\* GET /search: type and groupId when they are strings, locked when it is
\* 'true' or 'false'
RouteFilter(f) ==
  Spread([k \in (DOMAIN f) \cap {"type", "groupId"} |-> f[k]],
         [k \in {j \in (DOMAIN f) \cap {"locked"} : f[j] \in {"true", "false"}} |->
            f[k] = "true"])

ClientSearch(st, f) ==
  Outcome(st, Returned(StoreQuery(st, RouteFilter(f)), 0))

ClientSync(st, l, next, t) ==
  IF ~SyncBodyOK(l) THEN Outcome(st, Thrown)
  ELSE LET els == [i \in 1..Len(l) |->
                     SyncElement(l[i], IF HasOwnId(l[i]) THEN l[i].id
                                       ELSE NthId(next, i), t)]
           res == SetEach(StoreClear(st), els)
       IN IF res.threw THEN Outcome(res.store, Thrown)
          ELSE Outcome(res.store,
                       Returned(<<>>, [beforeCount |-> StoreCount(st),
                                       afterCount |-> StoreCount(res.store)]))

\* ---- standalone: CanvasClientAdapter ----
AdapterCreate(st, data, id, t) ==
  LET el  == AdapterElement(data, id, t, "standalone")
      res == StoreSet(st, id, el)
  IN IF res.threw THEN Outcome(st, Thrown)
     ELSE Outcome(res.store, Returned(<<el>>, 0))

AdapterUpdate(st, id, data, t) ==
  IF ~StoreHas(st, id) THEN Outcome(st, Thrown)
  ELSE LET existing == StoreGet(st, id)
           el  == Spread(Spread(existing, data),
                         [id |-> existing.id, createdAt |-> existing.createdAt,
                          updatedAt |-> t, version |-> existing.version + 1])
           res == StoreSet(st, id, el)
       IN IF res.threw THEN Outcome(st, Thrown)
          ELSE Outcome(res.store, Returned(<<el>>, 0))

AdapterDelete(st, id) ==
  LET res == StoreDelete(st, id)
  IN Outcome(res.store, Returned(<<>>, res.deleted))

AdapterBatch(st, l, next, t) ==
  LET els == [i \in 1..Len(l) |->
                AdapterElement(l[i], NthId(next, i), t, "standalone")]
      res == SetEach(st, els)
  IN IF res.threw THEN Outcome(res.store, Thrown)
     ELSE Outcome(res.store, Returned(els, 0))

\* searchElements: locked is true for 'true' and false for any other string
AdapterFilter(f) ==
  Spread([k \in (DOMAIN f) \cap {"type", "groupId"} |-> f[k]],
         [k \in (DOMAIN f) \cap {"locked"} |-> f[k] = "true"])

AdapterSearch(st, f) ==
  Outcome(st, Returned(StoreQuery(st, AdapterFilter(f)), 0))

\* sync: `(data.id as string) || generateId()`, the attributes of the
\* argument, then replaceAll
AdapterSync(st, l, next, t) ==
  LET els == [i \in 1..Len(l) |->
                AdapterElement(l[i],
                               IF "id" \in DOMAIN l[i] /\ IdLength(l[i].id) > 0
                                 THEN l[i].id ELSE NthId(next, i),
                               t, "standalone-sync")]
      res == ReplaceAll(st, els)
  IN IF res.threw THEN Outcome(res.store, Thrown)
     ELSE Outcome(res.store,
                  Returned(<<>>, [beforeCount |-> StoreCount(st),
                                  afterCount |-> StoreCount(res.store)]))

\* ---- one caller, the same call in both modes ----
\* the call takes effect in both modes; `used` ids are generated by it
Called(op, c, a, used) ==
  /\ store' = c.store
  /\ alone' = a.store
  /\ twin' = [op |-> op, left |-> c.result, right |-> a.result]
  /\ nextId' = nextId + used
  /\ issued' = issued + 1
  /\ query' = NoQuery
  /\ resp' = NoResp
  /\ lastSet' = NoSet
  /\ wsOut' = NoOut
  /\ hand' = NoHand
  /\ UNCHANGED <<reqs, sess, inbox, now, life, snapshot, gateVars, fileVars>>

ToolCreate ==
  /\ issued < MaxRequests
  /\ \E data \in ToolCreateArgs :
      Called("create", ClientCreate(store, data, nextId, now),
             AdapterCreate(alone, data, nextId, now), 1)

ToolUpdate ==
  /\ issued < MaxRequests
  /\ \E id \in ToolIds, data \in ToolUpdateArgs :
      Called("update", ClientUpdate(store, id, data, now),
             AdapterUpdate(alone, id, data, now), 0)

ToolDelete ==
  /\ issued < MaxRequests
  /\ \E id \in ToolIds :
      Called("delete", ClientDelete(store, id), AdapterDelete(alone, id), 0)

ToolBatch ==
  /\ issued < MaxRequests
  /\ \E l \in ToolBatchArgs :
      Called("batch", ClientBatch(store, l, nextId, now),
             AdapterBatch(alone, l, nextId, now), Len(l))

ToolQuery ==
  /\ issued < MaxRequests
  /\ \E f \in ToolFilters :
      Called("query", ClientSearch(store, f), AdapterSearch(alone, f), 0)

ToolSync ==
  /\ issued < MaxRequests
  /\ \E l \in ToolSyncArgs :
      Called("sync", ClientSync(store, l, nextId, now),
             AdapterSync(alone, l, nextId, now), Len(l))

NextTwin ==
  \/ ToolCreate \/ ToolUpdate \/ ToolDelete
  \/ ToolBatch \/ ToolQuery \/ ToolSync

(***************************************************************************)
(* The middleware chain of main(): standardLimiter, health route,          *)
(* authentication of /api, then the routers, some behind strictLimiter.    *)
(* A request runs through the chain in one step; the requests the handler  *)
(* actions above start are those the chain lets through.                   *)
(***************************************************************************)
\* Math.ceil(config.RATE_LIMIT_MAX_REQUESTS / 5)
StrictMax == (StdMax + 4) \div 5

\* keyGenerator: req.header('X-API-Key') ?? req.ip
KeyGenerator(cred) == IF cred = "none" THEN "ip" ELSE cred

\* the middleware testing only that a key is presented
AuthMiddlewarePresence(cred) == IF cred = "none" THEN 401 ELSE 0

\* the middleware comparing only keys of the configured length
AuthMiddlewareSameLength(cred) ==
  IF cred = "none" THEN 401
  ELSE IF KeyLength("good") = KeyLength(cred) /\ cred # "good" THEN 403
  ELSE 0

\* createAuthMiddleware: 0 stands for next()
AuthMiddleware(cred) ==
  IF cred = "none" THEN 401
  ELSE IF KeyLength("good") # KeyLength(cred) \/ cred # "good" THEN 403
  ELSE 0

Routes ==
  {"health", "list", "create", "update", "delete", "batch", "sync", "mermaid",
   "export"}

\* the kinds of request the strict tier is documented for
StrictKinds == {"delete", "batch", "sync", "mermaid", "export"}

\* how often a request for the route runs through strictLimiter before a router
\* answers it: elementsRouter is mounted without it, syncRouter and exportRouter
\* behind it, mermaidRouter behind it after syncRouter's mount has called next()
StrictPasses(route) ==
  IF route \in {"sync", "export"} THEN 1
  ELSE IF route = "mermaid" THEN 2
  ELSE 0

\* strictLimiter, `passes` times: the hits counted and whether one of them was over
StrictChain(hits, passes) ==
  IF passes = 0 THEN [hits |-> hits, over |-> FALSE]
  ELSE IF hits + 1 > StrictMax THEN [hits |-> hits + 1, over |-> TRUE]
  ELSE IF passes = 1 THEN [hits |-> hits + 1, over |-> FALSE]
  ELSE [hits |-> hits + 2, over |-> hits + 2 > StrictMax]

\* the chain for one request: the status it answers (0: a route handler is
\* reached) and the hits it adds to the two limiters
Chain(route, cred) ==
  LET k  == KeyGenerator(cred)
      sc == StrictChain(strictHits[k], StrictPasses(route))
  IN IF stdHits[k] + 1 > StdMax THEN [status |-> 429, std |-> 1, strict |-> 0]
     ELSE IF route = "health" THEN [status |-> 200, std |-> 1, strict |-> 0]
     ELSE IF AuthMiddleware(cred) # 0
       THEN [status |-> AuthMiddleware(cred), std |-> 1, strict |-> 0]
     ELSE IF sc.over
       THEN [status |-> 429, std |-> 1, strict |-> sc.hits - strictHits[k]]
     ELSE [status |-> 0, std |-> 1, strict |-> sc.hits - strictHits[k]]

\* the Origin headers of the requests
HttpOrigins == {"none", "http://localhost:3000", "http://localhost:300"}

\* createCorsMiddleware: 0 stands for next(); a refused origin is passed as an
\* Error to next(), and with no error handler mounted Express answers it 500
CorsMiddleware(origin) ==
  IF origin = "none" THEN 0
  ELSE IF origin \in AllowedOrigins THEN 0
  ELSE 500

\* the requests counted in the standard limiter's current window
Arrivals == stdHits["bad"] + stdHits["short"] + stdHits["good"] + stdHits["ip"]

\* the requests of the model. The origin check runs before a route or a key
\* is looked at: without an Origin header a request comes for every route
\* with every credential, with one for two routes and with the valid key or none
Requests ==
  { <<route, cred, "none">> : route \in Routes, cred \in Creds }
    \cup { <<route, cred, origin>> :
             route \in {"list", "mermaid"}, cred \in {"good", "none"},
             origin \in HttpOrigins \ {"none"} }

Arrive ==
  \E <<route, cred, origin>> \in Requests :
    LET k == KeyGenerator(cred)
        c == IF CorsMiddleware(origin) # 0
               THEN [status |-> CorsMiddleware(origin), std |-> 0, strict |-> 0]
               ELSE Chain(route, cred)
    IN /\ Arrivals < MaxArrivals
       /\ stdHits[k] <= StdMax
       /\ strictHits[k] <= StrictMax + 1
       /\ accepted[k] <= StrictMax
       /\ stdHits' = [stdHits EXCEPT ![k] = @ + c.std]
       /\ strictHits' = [strictHits EXCEPT ![k] = @ + c.strict]
       /\ gate' = [route |-> route, cred |-> cred, key |-> k, status |-> c.status,
                   std |-> c.std, strict |-> c.strict, origin |-> origin]
       /\ accepted' = IF c.status = 0 /\ route \in StrictKinds
                        THEN [accepted EXCEPT ![k] = @ + 1] ELSE accepted
       /\ UNCHANGED <<handlerVars, fileVars, toolVars>>

\* windowMs has passed for the standard limiter
StdWindow ==
  /\ stdHits # [k \in Keys |-> 0]
  /\ stdHits' = [k \in Keys |-> 0]
  /\ gate' = NoGate
  /\ UNCHANGED <<strictHits, accepted, handlerVars, fileVars, toolVars>>

\* windowMs has passed for the strict limiter
StrictWindow ==
  /\ strictHits # [k \in Keys |-> 0] \/ accepted # [k \in Keys |-> 0]
  /\ strictHits' = [k \in Keys |-> 0]
  /\ accepted' = [k \in Keys |-> 0]
  /\ gate' = NoGate
  /\ UNCHANGED <<stdHits, handlerVars, fileVars, toolVars>>

NextGate == Arrive \/ StdWindow \/ StrictWindow

Next ==
  \/ CreateStart \/ UpdateStart \/ DeleteStart \/ ListStart \/ GetStart
  \/ BatchStart \/ SyncStart \/ Mermaid
  \/ \E r \in 1..MaxInflight :
       \/ CreateFinish(r)
       \/ UpdateWrite(r) \/ UpdateFinish(r)
       \/ DeleteFinish(r)
       \/ ListFinish(r)
       \/ GetFinish(r)
       \/ BatchStep(r)
       \/ SyncClear(r) \/ SyncStep(r) \/ SyncFinish(r)
  \/ \E s \in Sessions :
       WsConnect(s) \/ WsClosing(s) \/ WsClosed(s)

\* the handlers and the sessions
Spec == Init /\ [][Next]_vars

\* the middleware chain
SpecGate == Init /\ [][NextGate]_vars

NextWs ==
  \/ CreateStart
  \/ \E r \in 1..MaxInflight : CreateFinish(r)
  \/ \E s \in Peers :
       \/ WsUpgrade(s) \/ WsCatchUp(s) \/ WsMessage(s)
       \/ WsBreak(s) \/ WsError(s)
       \/ WsClosing(s) \/ WsClosed(s)

\* the session registry, with the creates it broadcasts
SpecWs == Init /\ [][NextWs]_vars

NextRead ==
  \/ CreateStart \/ ListStart \/ GetStart \/ SearchStart \/ ExportStart
  \/ Mermaid
  \/ \E r \in 1..MaxInflight :
       \/ CreateFinish(r)
       \/ ListFinish(r) \/ GetFinish(r)
       \/ SearchFinish(r) \/ ExportFinish(r)
  \/ \E s \in Sessions :
       WsConnect(s) \/ WsClosing(s) \/ WsClosed(s)

\* the routes that read, next to creates and sessions
SpecRead == Init /\ [][NextRead]_vars

NextView ==
  \/ CreateStart \/ UpdateStart \/ DeleteStart \/ BatchStart
  \/ \E r \in 1..MaxInflight :
       \/ CreateFinish(r)
       \/ UpdateWrite(r) \/ UpdateFinish(r)
       \/ DeleteFinish(r)
       \/ BatchStep(r)
  \/ \E s \in Sessions : WsUpgrade(s) \/ WsCatchUpHeard(s) \/ WsClosed(s)

\* the element routes that send element events, and a peer that follows them
SpecView == Init /\ [][NextView]_vars

\* the store and its queries
SpecQuery == Init /\ [][NextQuery]_vars

\* the standalone store
SpecAlone == Init /\ [][NextAlone]_vars

\* the tools in both modes, side by side
SpecTwin == Init /\ [][NextTwin]_vars

\* the store with file persistence
SpecFile == Init /\ [][NextFile]_vars

NextSave ==
  \/ FileSet \/ FileDelete \/ FileClear \/ Tick
  \/ \E i \in 1..NSavers :
       SaveBegin(i) \/ SaveOpen(i) \/ SaveWrite(i) \/ SaveRename(i)

\* the store with file persistence in one run of the server
SpecSave == Init /\ [][NextSave]_vars

\* the same, with the clock going on and the server doing every step it can:
\* a due timeout runs, a save in progress goes on. Nothing makes the callers
\* of the store stop or go on.
SpecSaveFair ==
  /\ SpecSave
  /\ WF_vars(Tick)
  /\ \A i \in 1..NSavers :
       WF_vars(SaveBegin(i) \/ SaveOpen(i) \/ SaveWrite(i) \/ SaveRename(i))

(***************************************************************************)
(* Properties of the element store and of the element routes.              *)
(***************************************************************************)
\* C1: the store never holds more than the configured maximum of elements; a
\* set of a new id when the count equals the maximum throws and leaves the
\* store as it was; a set of an id that is stored never throws.
C1_CapacityBound ==
  /\ StoreCount(store) <= MaxElements
  /\ lastSet # NoSet =>
       /\ (lastSet.count = MaxElements /\ ~lastSet.had) =>
            (lastSet.threw /\ lastSet.kept)
       /\ lastSet.had => ~lastSet.threw

\* a set of a new id has just been refused by the full store
C1_RefusedAtMaximum ==
  /\ lastSet # NoSet
  /\ lastSet.count = MaxElements /\ ~lastSet.had /\ lastSet.threw
  /\ StoreCount(store) = MaxElements

\* C2: a batch-create is all-or-nothing: answered with the capacity error it
\* has stored none of its elements; answered with success it has stored all
\* of them and has broadcast exactly one elements_batch_created event that
\* carries them all.
C2_BatchAllOrNothing ==
  (resp.kind = "batch" /\ resp.valid /\ resp.solo) =>
    /\ resp.status \in {201, 409}
    /\ resp.status = 409 => resp.writes = 0
    /\ resp.status = 201 =>
         /\ resp.writes = resp.n
         /\ Len(resp.emitted) = 1
         /\ resp.emitted[1].type = "elements_batch_created"
         /\ Len(resp.emitted[1].payload) = resp.n

\* C3: a full-replace sync is atomic: no other request reads or writes the
\* store while it is neither the contents before the sync nor the contents
\* after it, and a sync that fails has changed nothing.
C3_SyncAtomic ==
  /\ \A r \in Running : ~reqs[r].sawPartial
  /\ resp.kind # "none" => ~resp.sawPartial
  /\ (resp.kind = "sync" /\ resp.valid /\ resp.status # 200) => resp.writes = 0

\* C4: after a sync with a schema-valid list, whatever ids its entries carry,
\* the store counts as many elements as the list has entries, and no id that
\* was stored before and is not in the list is stored.
C4_SyncReplacesAll ==
  (resp.kind = "sync" /\ resp.valid /\ resp.solo) =>
    /\ StoreCount(store) = resp.n
    /\ \A id \in StoreIds(resp.pre) \ resp.own : ~StoreHas(store, id)

C6_VersionNeverReused ==
  [][\A i \in 1..Len(store), j \in 1..Len(store') :
       store[i].id = store'[j].id =>
         /\ store'[j].version >= store[i].version
         /\ store'[j] # store[i] => store'[j].version # store[i].version]_vars


(***************************************************************************)
(* Properties of the middleware chain (SpecGate).                          *)
(***************************************************************************)
\* the request carried no Origin header or one of the allow-list
OriginAdmitted == gate.origin = "none" \/ gate.origin \in AllowedOrigins

BadCredential ==
  gate # NoGate /\ OriginAdmitted /\ gate.route # "health" /\ gate.cred # "good"

C8_StrictTier ==
  /\ (gate # NoGate /\ gate.status = 0 /\ gate.route \in StrictKinds) =>
       gate.strict >= 1
  /\ \A k \in Keys : accepted[k] <= StrictMax

(***************************************************************************)
(* Properties of the responses and of the broadcasts.                      *)
(***************************************************************************)
Mutating == {"create", "update", "delete", "batch", "sync"}

SuccessStatus(kind) == IF kind \in {"create", "batch"} THEN 201 ELSE 200

EventOf(kind) ==
  CASE kind = "create" -> "element_created"
    [] kind = "update" -> "element_updated"
    [] kind = "delete" -> "element_deleted"
    [] kind = "batch"  -> "elements_batch_created"
    [] kind = "sync"   -> "sync_status"

\* C9: a create, update, delete, batch-create or sync that succeeds causes
\* exactly one event, of the type of its kind, sent once to every session
\* that is open at that moment and to no other; a request that fails causes
\* no event.
C9_OneEventPerSuccess ==
  resp.kind \in Mutating =>
    IF resp.status = SuccessStatus(resp.kind)
      THEN /\ Len(resp.emitted) = 1
           /\ resp.emitted[1].type = EventOf(resp.kind)
           /\ resp.emitted[1].to =
                [s \in Peers |-> IF s \in resp.open THEN 1 ELSE 0]
      ELSE resp.emitted = <<>>

\* a sync of two entries has succeeded while a session is open
C9_SyncSeenBySession ==
  /\ resp.kind = "sync" /\ resp.status = 200
  /\ resp.n = 2 /\ resp.open # {}

SchemaChecked == {"create", "update", "batch", "sync", "mermaid"}

C11_StoredWithinBounds ==
  \A i \in 1..Len(store) :
    /\ store[i].type \in ELEMENT_TYPES
    /\ CoordOK(store[i].x)
    /\ "width" \in DOMAIN store[i] => DimOK(store[i].width)

Locked(e) == "locked" \in DOMAIN e /\ e.locked

\* the fields an update may not touch while the element is locked
Guarded == {"type", "x", "width"}

\* C12: a step that updates a locked element (its version goes up by one) and
\* leaves it locked changes none of its position, size and style.
C12_LockedUnchanged ==
  [][\A i \in 1..Len(store), j \in 1..Len(store') :
       ( /\ store'[j].id = store[i].id
         /\ Locked(store[i]) /\ Locked(store'[j])
         /\ store'[j].version = store[i].version + 1 )
       => \A f \in Guarded \cap DOMAIN store[i] : store'[j][f] = store[i][f]]_vars

\* C16: a create, batch-create, update or sync whose store.set was refused by
\* the capacity check is answered 409.
C16_CapacityIs409 ==
  (resp.kind \in {"create", "batch", "update", "sync"} /\ resp.threw)
    => resp.status = 409

(***************************************************************************)
(* Properties of the limiters and of the API-key check.                    *)
(***************************************************************************)
\* C17: a request whose credential is not the configured key is counted under
\* the caller's address, never under the value it presents.
C17_KeyedByVerifiedIdentity ==
  (gate # NoGate /\ gate.cred # "good") => gate.key = "ip"

\* the count a limiter held for the request's key before the request
StdBefore == stdHits[gate.key] - gate.std
StrictBefore == strictHits[gate.key] - gate.strict

\* the standard limiter answered the request
StdRejected == gate.status = 429 /\ stdHits[gate.key] > StdMax

\* the request got as far as the strict limiter
StrictSeen == gate.strict > 0

\* C18: a limiter rejects a request with 429 exactly when it has admitted its
\* maximum of requests with the request's key in the window.
C18_ExactlyMaxAdmitted ==
  (gate # NoGate /\ OriginAdmitted) =>
    /\ StdRejected <=> StdBefore >= StdMax
    /\ StrictSeen => (gate.status = 429 <=> StrictBefore >= StrictMax)

C13_CatchUpFirst ==
  /\ wsOut.type \notin {"none", "initial_elements"} => ~wsOut.due
  /\ (resp.kind # "none" /\ resp.emitted # <<>>) =>
       \A s \in Peers : resp.emitted[1].to[s] = 1 => ~sess[s].due
  /\ wsOut.type = "initial_elements" => wsOut.full

\* a send of the broadcast of the last response went to the broken socket b
SendFailed(b) ==
  /\ resp.kind \in Mutating
  /\ resp.emitted # <<>>
  /\ sess[b].broken
  /\ resp.emitted[1].to[b] = 1

\* C14: when a send of a broadcast fails, the request is still answered with
\* success and every other open peer is sent the event; for a peer whose
\* socket has failed the 'error' step is due, and it takes the peer out of
\* the registry.
C14_SendFailureIsolated ==
  /\ \A b \in Peers :
       SendFailed(b) =>
         /\ resp.status = SuccessStatus(resp.kind)
         /\ \A o \in Peers \ {b} :
              sess[o].state = "open" => resp.emitted[1].to[o] = 1
  /\ \A s \in Peers :
       sess[s].broken => ENABLED (WsError(s) /\ sess'[s].state = "none")

\* a create is answered 201 after its event went to a broken socket and to a
\* sound one
C14_OneOfTwoFailed ==
  \E b \in Peers, o \in Peers :
    /\ SendFailed(b)
    /\ resp.status = 201
    /\ sess[o].state = "open" /\ ~sess[o].broken
    /\ resp.emitted[1].to[o] = 1

Complete(f) ==
  /\ Len(f.data) = NChunks
  /\ \A k \in 1..NChunks : f.data[k] = Chunk(f.data[1].doc, k)

\* C15: the file at the canonical path is absent or holds one complete
\* snapshot document, unless it was put there from outside the server.
C15_CanonicalComplete ==
  disk.canon = NoFile \/ disk.canon \in ForeignFiles \/ Complete(disk.canon)

(***************************************************************************)
(* Properties of the origin check.                                         *)
(***************************************************************************)
\* C21: a request whose Origin header is present and not an entry of the
\* allow-list is answered 403 and reaches no route handler; a request with
\* no Origin header passes the origin check and goes on to the limiter.
C21_ForeignOriginForbidden ==
  gate # NoGate =>
    /\ ~OriginAdmitted => gate.status = 403
    /\ gate.origin = "none" => gate.std = 1

(***************************************************************************)
(* Properties of the colour values.                                        *)
(***************************************************************************)
Digit == {"0", "1", "2", "3", "4", "5", "6", "7", "8", "9"}

HexDigit == Digit \cup {"a", "b", "c", "d", "e", "f", "A", "B", "C", "D", "E", "F"}

Letter ==
  {"a", "b", "c", "d", "e", "f", "g", "h", "i", "j", "k", "l", "m", "n", "o", "p",
   "q", "r", "s", "t", "u", "v", "w", "x", "y", "z",
   "A", "B", "C", "D", "E", "F", "G", "H", "I", "J", "K", "L", "M", "N", "O", "P",
   "Q", "R", "S", "T", "U", "V", "W", "X", "Y", "Z"}

\* "#" and three, six or eight hexadecimal digits
HexColor(c) ==
  /\ Len(c) \in {4, 7, 9}
  /\ c[1] = "#"
  /\ \A j \in 2..Len(c) : c[j] \in HexDigit

\* the positions a match can go on from, after parts of the notation that
\* start at one of the positions P
Blanks(c, P) ==
  {q \in 1..(Len(c) + 1) : \E p \in P : p <= q /\ \A j \in p..(q - 1) : c[j] = " "}

Digits(c, P) ==
  {q \in 1..(Len(c) + 1) :
     \E p \in P : q - p \in 1..3 /\ \A j \in p..(q - 1) : c[j] \in Digit}

Lit(c, P, ch) == {p + 1 : p \in {q \in P : q <= Len(c) /\ c[q] = ch}}

Number(c, P) == Blanks(c, Digits(c, Blanks(c, P)))

\* 0, 1 or a decimal fraction
Alpha(c, P) ==
  LET point == Lit(c, P \cup Lit(c, P, "0"), ".")
      frac  == {q \in 1..(Len(c) + 1) :
                  \E p \in point : p < q /\ \A j \in p..(q - 1) : c[j] \in Digit}
  IN Lit(c, P, "0") \cup Lit(c, P, "1") \cup frac

\* rgb(r, g, b) or rgba(r, g, b, a)
RgbColor(c) ==
  LET start == IF Len(c) >= 4 /\ SubSeq(c, 1, 4) = <<"r", "g", "b", "(">> THEN {5}
               ELSE IF Len(c) >= 5 /\ SubSeq(c, 1, 5) = <<"r", "g", "b", "a", "(">>
                 THEN {6}
               ELSE {}
      three == Number(c, Lit(c, Number(c, Lit(c, Number(c, start), ",")), ","))
      four  == Blanks(c, Alpha(c, Blanks(c, Lit(c, three, ","))))
  IN (Len(c) + 1) \in Lit(c, three \cup four, ")")

\* transparent, or a short alphabetic name
NamedColor(c) ==
  /\ Len(c) \in 1..30
  /\ \A j \in 1..Len(c) : c[j] \in Letter

ClosedColor(c) == HexColor(c) \/ RgbColor(c) \/ NamedColor(c)

\* C22: every colour a stored element has is of the closed colour grammar.
C22_ColorsWithinGrammar ==
  \A i \in 1..Len(store) :
    \A f \in {"backgroundColor", "strokeColor"} \cap DOMAIN store[i] :
      ClosedColor(store[i][f])

(***************************************************************************)
(* Properties of the identity of the elements.                             *)
(***************************************************************************)
\* the fields that make the identity of an element
Identity == {"id", "version", "createdAt"}

\* C23: every set stores an element under its own id, no two stored elements
\* have one id, and an update of a stored element whose body names id,
\* version or createdAt is answered 400, writes nothing and causes no event.
C23_KeyIsId ==
  /\ lastSet.elid = lastSet.id
  /\ \A i, j \in 1..Len(store) : store[i].id = store[j].id => i = j
  /\ (resp.kind = "update" /\ resp.found /\ resp.names \cap Identity # {}) =>
       /\ resp.status = 400
       /\ resp.writes = 0
       /\ resp.emitted = <<>>

\* an update naming the id of a stored element has been answered 400
C23_IdInBodyRejected ==
  /\ resp.kind = "update" /\ resp.found
  /\ "id" \in resp.names
  /\ resp.status = 400

(***************************************************************************)
(* Properties of delete.                                                   *)
(***************************************************************************)
\* the step starts a delete request that calls store.delete
DeleteCalled ==
  /\ Len(reqs') = Len(reqs) + 1
  /\ reqs'[Len(reqs')].kind = "delete"

\* C24: store.delete of an id that is not stored returns false and leaves the
\* store as it is, and the request is answered 404 without an event;
\* store.delete of a stored id returns true and removes that element and no
\* other, so that the count goes down by one and the id is no longer stored,
\* and the request is answered 200 with one element_deleted event.
C24_DeleteExactlyOne ==
  /\ [][DeleteCalled =>
          LET q == reqs'[Len(reqs')]
          IN IF StoreHas(store, q.id)
               THEN /\ q.deleted
                    /\ ~StoreHas(store', q.id)
                    /\ StoreCount(store') = StoreCount(store) - 1
                    /\ \A i \in 1..Len(store) :
                         store[i].id # q.id =>
                           \E j \in 1..Len(store') : store'[j] = store[i]
               ELSE /\ ~q.deleted
                    /\ store' = store]_vars
  /\ [](resp.kind = "delete" /\ IdLength(resp.id) <= MAX_ID =>
          IF resp.writes = 0
            THEN resp.status = 404 /\ resp.emitted = <<>>
            ELSE /\ resp.status = 200
                 /\ Len(resp.emitted) = 1
                 /\ resp.emitted[1].type = "element_deleted"
                 /\ resp.emitted[1].payload = resp.id)

\* a delete has been answered 200 and another element is still stored
C24_DeletedOneOfTwo ==
  /\ resp.kind = "delete" /\ resp.status = 200
  /\ StoreCount(store) >= 1

(***************************************************************************)
(* Properties of query.                                                    *)
(***************************************************************************)
\* the element satisfies every field the filter supplies
Matches(e, f) ==
  /\ "type" \in DOMAIN f => e.type = f.type
  /\ "locked" \in DOMAIN f => ("locked" \in DOMAIN e /\ e.locked = f.locked)
  /\ "groupId" \in DOMAIN f =>
       ("groupIds" \in DOMAIN e /\ \E i \in 1..Len(e.groupIds) : e.groupIds[i] = f.groupId)

\* C25: a query returns exactly the stored elements that satisfy every field
\* of its filter; with no field it returns all of them.
C25_QueryExact ==
  query.asked =>
    query.result = SelectSeq(store, LAMBDA e : Matches(e, query.filter))

(***************************************************************************)
(* Properties of the peers' own messages.                                  *)
(***************************************************************************)
\* the frames that are no JSON or no message of the protocol
BadFrames == {"junk", "shape", "huge"}

\* those of them that maxPayload lets through
BadMessages == {"junk", "shape"}

Started == boot'.now /\ boot' # boot

\* C27: when the canonical file holds the complete document of a snapshot
\* and the server is started over it, the new store holds exactly the
\* elements of that snapshot, each as it was written.
C27_SnapshotRecovered ==
  [][Started /\ disk.canon # NoFile /\ Complete(disk.canon) =>
       /\ boot'.status = "ok"
       /\ store' = disk.canon.data[1].doc]_vars

\* the file is no JSON text: garbled, cut short, or with a hole
NoJson(f) ==
  /\ f # NoFile
  /\ f.data # <<Listless>>
  /\ \/ f.data = <<Garbled>>
     \/ Len(f.data) < NChunks
     \/ \E k \in 1..Len(f.data) : f.data[k] = Hole

\* the server is down and nothing of it writes
Down ==
  /\ store = <<>>
  /\ timer = NoTimer
  /\ \A i \in 1..NSavers : savers[i] = Idle

C30_ReplaceAllAtomic ==
  twin.op = "replaceAll" =>
    IF twin.threw THEN alone = twin.before ELSE alone = twin.list

(***************************************************************************)
(* Properties of the two modes of the tools.                               *)
(***************************************************************************)
\* an element without what the modes may differ in: the generated id, the
\* timestamps, the provenance tag
Attributes(e) ==
  [f \in (DOMAIN e) \ {"id", "createdAt", "updatedAt", "source"} |-> e[f]]

SameElements(a, b) ==
  /\ Len(a) = Len(b)
  /\ \A i \in 1..Len(a) : Attributes(a[i]) = Attributes(b[i])

SameResults(l, r) ==
  /\ l.threw = r.threw
  /\ ~l.threw => l.info = r.info /\ SameElements(l.els, r.els)

\* C29: after every tool call the store of the canvas server and the
\* standalone store hold the same elements, and the call has returned the
\* same in both modes, up to generated ids, timestamps and provenance tag.
C29_ModesAgree ==
  twin.op \in {"create", "update", "delete", "batch", "query", "sync"} =>
    /\ SameElements(store, alone)
    /\ SameResults(twin.left, twin.right)

(***************************************************************************)
(* Properties of checkpoint and restore (SpecAlone).                       *)
(***************************************************************************)
\* C31: restore() after a checkpoint(), whatever sets, deletes and
\* replaceAll calls came in between, returns true and leaves the store equal
\* to its contents at the checkpoint, a second restore() after further
\* changes included; restore() with no checkpoint before it returns false
\* and changes nothing.
C31_RestoreRecovers ==
  twin.op = "restore" =>
    IF snapshot.taken
      THEN twin.returned /\ ~twin.threw /\ alone = snapshot.at
      ELSE ~twin.returned /\ alone = twin.before

\* a second restore() has put the checkpoint back over a different store
C31_RestoredTwice ==
  /\ twin.op = "restore" /\ twin.returned /\ twin.again
  /\ twin.before # alone
  /\ StoreIds(twin.before) \ StoreIds(alone) # {}
  /\ alone # <<>>

(***************************************************************************)
(* Properties of requests that overlap (Spec).                             *)
(***************************************************************************)
\* the requests r and o are updates of one element that both have called
\* store.set without an error and have not answered yet
BothWrote(r, o) ==
  /\ r # o
  /\ reqs[r].kind = "update" /\ reqs[o].kind = "update"
  /\ reqs[r].pc = "updated" /\ reqs[o].pc = "updated"
  /\ ~reqs[r].threw /\ ~reqs[o].threw
  /\ reqs[r].id = reqs[o].id

UpdateStores(r) ==
  /\ r \in DOMAIN reqs /\ r \in DOMAIN reqs'
  /\ reqs[r].kind = "update" /\ reqs[r].pc = "got"
  /\ reqs'[r].kind = "update" /\ reqs'[r].pc = "updated" /\ ~reqs'[r].threw
  /\ lastSet' # NoSet

C33_NoUpdateAfterDelete ==
  \A r, o \in Running :
    ( /\ r < o
      /\ reqs[r].kind = "update" /\ reqs[r].pc = "updated" /\ ~reqs[r].threw
      /\ reqs[o].kind = "delete" /\ reqs[o].deleted
      /\ reqs[o].id = reqs[r].id )
    => ~StoreHas(store, reqs[r].id)

(***************************************************************************)
(* Properties of what a peer is sent (SpecView).                           *)
(***************************************************************************)
\* a replica with the element e put under its id
Put1(v, e) ==
  IF StoreHas(v, e.id)
    THEN [i \in 1..Len(v) |-> IF v[i].id = e.id THEN e ELSE v[i]]
    ELSE Append(v, e)

RECURSIVE PutAll(_, _)
PutAll(v, els) == IF els = <<>> THEN v ELSE PutAll(Put1(v, Head(els)), Tail(els))

\* the replica a viewer builds from the messages of a peer, in their order
RECURSIVE Replayed(_, _)
Replayed(v, msgs) ==
  IF msgs = <<>> THEN v
  ELSE LET m == Head(msgs)
           w == CASE m.type = "initial_elements" -> m.payload
                  [] m.type \in {"element_created", "element_updated"} -> Put1(v, m.payload)
                  [] m.type = "elements_batch_created" -> PutAll(v, m.payload)
                  [] m.type = "element_deleted" ->
                       SelectSeq(v, LAMBDA e : e.id # m.payload)
                  [] OTHER -> v
       IN Replayed(w, Tail(msgs))

Elements(v) == {v[i] : i \in 1..Len(v)}

\* C34: once no request is in flight (none of them a sync), the elements a
\* peer that has stayed open obtains from its initial_elements event and the
\* element events after it, applied in the order of their arrival, are the
\* elements of the store.
C34_ViewConverges ==
  \A s \in Sessions :
    ( /\ reqs = <<>>
      /\ sess[s].state = "open" /\ ~sess[s].due /\ ~sess[s].broken
      /\ inbox[s] # <<>> )
    => Elements(Replayed(<<>>, inbox[s])) = Elements(store)

(***************************************************************************)
(* Properties of the debounced save (SpecSave).                            *)
(***************************************************************************)
\* a call of saveToDisk starts in this step
SaveStarts(i) == savers[i].pc = "idle" /\ savers'[i].pc = "read"

\* C35: at most one timeout of scheduleSave is pending; from a mutation that
\* succeeded until a save starts exactly one is pending, due DEBOUNCE_MS
\* after the last such mutation; a save starts only then, DEBOUNCE_MS after
\* the last mutation, reads the store as it is then, and is the one save of
\* the mutations before it.
C35_OneSavePerBurst ==
  /\ [](Len(timer.pending) <= 1)
  /\ [](timer.dirty =>
          /\ Len(timer.pending) = 1
          /\ timer.pending[1] = DEBOUNCE_MS - timer.since)
  /\ [](~timer.dirty => timer.pending = <<>>)
  /\ [][\A i \in 1..NSavers :
          SaveStarts(i) =>
            /\ timer.dirty /\ ~timer'.dirty
            /\ timer.since = DEBOUNCE_MS
            /\ savers'[i].snap = store
            /\ timer'.pending = <<>>]_vars

\* the first save has started, after two sets, with both elements
C35_TwoSetsOneSave ==
  /\ savers[1].pc = "read" /\ Len(savers[1].snap) = 2
  /\ savers[2] = Idle
  /\ disk = [tmp |-> NoFile, canon |-> NoFile]
  /\ ~timer.dirty

\* C36: a mutation that has succeeded is read by a save, however many
\* mutations follow it: the store does not stay for ever with a mutation
\* that no save has read, so that one can reach the canonical file.
C36_EveryMutationSaved == timer.dirty ~> ~timer.dirty

\* no timeout is pending, no saveToDisk is running and every mutation that
\* succeeded has been read by one; a mutation has succeeded before
Settled ==
  /\ timer.pending = <<>> /\ ~timer.dirty
  /\ \A i \in 1..NSavers : savers[i] = Idle
  /\ store # <<>> \/ disk # [tmp |-> NoFile, canon |-> NoFile]

\* C37: when the mutations have stopped and every save that was scheduled
\* or in progress has finished, the canonical file holds one complete
\* snapshot document whose element list is the store, also when two saves
\* have overlapped.
C37_SettledFileIsStore ==
  Settled =>
    /\ disk.canon # NoFile
    /\ Complete(disk.canon)
    /\ disk.canon.data[1].doc = store

(***************************************************************************)
(* Properties of the strict limiter's count.                               *)
(***************************************************************************)
\* C38: a sync, from-mermaid or export request that reaches its handler has
\* added exactly one to the strict limiter's count of its key.
C38_StrictCountedOnce ==
  (gate # NoGate /\ gate.status = 0 /\ gate.route \in {"sync", "mermaid", "export"}) =>
    gate.strict = 1

(***************************************************************************)
(* Properties of the sync_status events.                                   *)
(***************************************************************************)
\* C39: a sync_status event sent in reply to a ping carries the number of
\* elements the store holds when the reply is sent.
C39_StatusCountsStore ==
  wsOut.type = "sync_status" => wsOut.count = StoreCount(store)

(***************************************************************************)
(* Properties of the requests that read (SpecRead).                        *)
(***************************************************************************)
Reads == {"list", "get", "search", "export", "mermaid"}

\* the step takes a request of one of the kinds to its first await, or answers one
ReadStep(kinds) ==
  \/ resp' # NoResp /\ resp'.kind \in kinds
  \/ /\ Len(reqs') = Len(reqs) + 1
     /\ reqs'[Len(reqs')].kind \in kinds

\* C40: no step of a list, get, search, export or from-mermaid request
\* changes the store (its elements and their versions); none but a
\* from-mermaid request causes an event, and a from-mermaid request that is
\* accepted causes exactly one, of type mermaid_convert, sent once to every
\* session open at that moment and to no other.
C40_ReadsChangeNothing ==
  /\ [][ReadStep(Reads) => store' = store]_vars
  /\ [](resp.kind \in Reads \ {"mermaid"} => resp.emitted = <<>>)
  /\ [](resp.kind = "mermaid" =>
          IF resp.status = 200
            THEN /\ Len(resp.emitted) = 1
                 /\ resp.emitted[1].type = "mermaid_convert"
                 /\ resp.emitted[1].to =
                      [s \in Peers |-> IF sess[s].state = "open" THEN 1 ELSE 0]
            ELSE resp.emitted = <<>>)

\* a from-mermaid request has been accepted while the store holds an element,
\* one session is open and another request is reading
C40_ConvertSeenBySession ==
  /\ resp.kind = "mermaid" /\ resp.status = 200
  /\ store # <<>>
  /\ \E s \in Sessions : sess[s].state = "open"
  /\ \E r \in Running : reqs[r].kind \in {"search", "export"}

====
